---- MODULE Spec2Model ----
(***************************************************************************)
(* Model of the event buffering and chunking code of nr-video-core-js:     *)
(*   - NrVideoEventAggregator   (src/src/eventAggregator.js)               *)
(*   - PriorityEventBuffer      (src/src/priorityEventBuffer.js)           *)
(*   - BaseHarvester.chunkEvents (src/src/optimizedHttpClient.js)          *)
(*   - OptimizedHttpClient      (src/src/optimizedHttpClient.js)           *)
(*   - HarvestScheduler         (src/src/harvestScheduler.js)              *)
(*   - DeadLetterHandler        (src/unnamed/part_012)                     *)
(* The agent owns exactly one event buffer object; which class it is, is   *)
(* decided once at initialisation (variable impl).                         *)
(***************************************************************************)
EXTENDS Integers, Sequences, FiniteSets, Bags, TLC

VARIABLES
    impl,                  \* class of the agent's eventBuffer: "agg" | "peb"
    buffer,                \* this.buffer
    totalEvents,           \* this.totalEvents
    currentPayloadSize,    \* NrVideoEventAggregator.currentPayloadSize (NaN possible)
    onSmartHarvestTrigger, \* TRUE iff a callback function is registered
    triggerCalls,          \* invocations of the callback made by the last operation
    eventCounter,          \* PriorityEventBuffer.eventCounter
    stats,                 \* PriorityEventBuffer.stats
    featureEnabled,        \* isFeatureEnabled('priorityEventBuffer'), fixed by the configuration
    lastOp,                \* name of the last operation executed
    lastResult,            \* return value of the last operation
    log,                   \* history: events queued by inserts since the buffer was last empty
    dirty,                 \* history: the buffer was changed otherwise since then (log is void)
    dropBase,              \* history: stats.eventsDropped when log was started
    chunkInput,            \* argument `events` of chunkEvents
    chunkFinal,            \* argument isFinalHarvest of getMaxChunkSize
    chunks,                \* value returned by chunkEvents
    httpRequest,           \* OptimizedHttpClient: the request being executed and what the network does with it
    httpResult,            \* OptimizedHttpClient: the results handed to the request's callback
    isStarted,             \* HarvestScheduler.isStarted
    currentTimerId,        \* HarvestScheduler.currentTimerId: "null" | "set"
    timerArmed,            \* the timer currentTimerId names is armed (neither fired nor cleared)
    orphanTimers,          \* armed harvest timers that currentTimerId no longer names
    harvestCycle,          \* HarvestScheduler.harvestCycle (ms)
    isHarvesting,          \* HarvestScheduler.isHarvesting
    consecutiveFailures,   \* HarvestScheduler.consecutiveFailures
    adaptiveConfig,        \* HarvestScheduler.adaptiveConfig
    performanceMetrics,    \* HarvestScheduler.performanceMetrics, and history: events delivered
    cycles,                \* harvest cycles suspended at `await this.sendChunk(...)`
    deadLetterQueue,       \* DeadLetterHandler.deadLetterQueue
    retryTimers,           \* DeadLetterHandler.retryTimers (ids of the items with an armed timer)
    resends,               \* bag of the retries suspended at `await this.resendEvent(...)`
    dlStats,               \* DeadLetterHandler.stats
    finalHarvests,         \* history: isFinalHarvest cycles that drained the buffer
    env,                   \* configuration and browser: feature flags, NRVIDEO.info, navigator.sendBeacon
    lastInterval,          \* interval of the last setTimeout of scheduleNextHarvest
    retryQueueHandler,     \* RetryQueueHandler: retryQueue, and what getRetryEventsToFit returned
    httpClient,            \* OptimizedHttpClient with request queue: its fields and its requests
    retryDelay,            \* the last computed retry delay and the inputs it was computed from
    legacyHarvester        \* legacy Harvester: its harvests so far and the chunks callApi has in flight

vars == <<impl, buffer, totalEvents, currentPayloadSize, onSmartHarvestTrigger,
          triggerCalls, eventCounter, stats, featureEnabled, lastOp,
          lastResult, log, dirty, dropBase, chunkInput, chunkFinal, chunks,
          httpRequest, httpResult, isStarted, currentTimerId, timerArmed,
          orphanTimers, harvestCycle, isHarvesting, consecutiveFailures,
          adaptiveConfig, performanceMetrics, cycles, deadLetterQueue,
          retryTimers, resends, dlStats, finalHarvests, env, lastInterval,
          retryQueueHandler, httpClient, retryDelay, legacyHarvester>>

chunkVars == <<chunkInput, chunkFinal, chunks>>

httpVars == <<httpRequest, httpResult>>

schedVars == <<isStarted, currentTimerId, timerArmed, orphanTimers, harvestCycle,
               isHarvesting, consecutiveFailures, adaptiveConfig, performanceMetrics,
               cycles, deadLetterQueue, retryTimers, resends, dlStats, finalHarvests,
               env, lastInterval>>

handlerVars == <<retryQueueHandler, httpClient, retryDelay, legacyHarvester>>

(***************************************************************************)
(* Bounds of the model.  The three limits of constants.js are scaled down  *)
(* (1000 events, 1048576 and 61440 bytes in the source).                   *)
(***************************************************************************)
MAX_EVENTS_PER_BATCH == 4
MAX_PAYLOAD_SIZE == 22
MAX_BEACON_SIZE == 16
MaxBufferSize == 3
MaxLog == 5
MaxCount == 5
MaxRetry == 2
MaxChunkInput == 5
MaxPayloadTotal == 26
MaxQueue == 5
MaxSchedEvents == 2
MaxTimers == 1
DeadLetterMaxRetries == 1
DeadLetterMaxQueue == 1
MaxForced == 2
MaxFailedEvents == 5
MaxRetryCount == 6
maxConcurrentRequests == 2
rateLimitPerMinute == 2
clientMaxRetries == 1
MaxSends == 3
RandomSteps == 8
MaxFailures == 6
MaxLegacyEvents == 3
MaxLegacyHarvests == 3
MaxLoopEvents == 3

(***************************************************************************)
(* JavaScript values                                                       *)
(***************************************************************************)
\* Number.NaN: the result of arithmetic on undefined.  Every byte total of
\* the program is >= 0, so a negative number stands for it.
NaN == 0 - 1

\* a + b on JS numbers
NumAdd(a, b) == IF a = NaN \/ b = NaN THEN NaN ELSE a + b

\* a - b on JS numbers
NumSub(a, b) == IF a = NaN \/ b = NaN THEN NaN ELSE a - b

\* a >= b on JS numbers: false as soon as one side is NaN
NumGe(a, b) == a # NaN /\ b # NaN /\ a >= b

\* a > b on JS numbers
NumGt(a, b) == a # NaN /\ b # NaN /\ a > b

\* Math.floor(n * num / den) for n >= 0
FloorFrac(n, num, den) == (n * num) \div den

\* the reserved aggregate action (Tracker.Events.VIEW_QOE_AGGREGATE)
QOE_AGGREGATE == "QOE_AGGREGATE"

\* an array slot that holds no element (reads as undefined)
undefined == [actionName |-> "undefined", size |-> NaN, sequence |-> 0]

\* events offered to NrVideoEventAggregator; size is the length of the
\* event's JSON text
AggEvents ==
    { [actionName |-> "CONTENT_START", size |-> 3, sequence |-> 0],
      [actionName |-> "CONTENT_HEARTBEAT", size |-> 7, sequence |-> 0],
      [actionName |-> "CONTENT_ERROR", size |-> MAX_PAYLOAD_SIZE + 1, sequence |-> 0] }

\* events with the reserved aggregate action
AggregateEvents ==
    { [actionName |-> QOE_AGGREGATE, size |-> 9, sequence |-> 0],
      [actionName |-> QOE_AGGREGATE, size |-> (MAX_PAYLOAD_SIZE * 6) \div 10, sequence |-> 0] }

\* events offered to PriorityEventBuffer, without a sequence number yet
PebEvents ==
    { [actionName |-> "CONTENT_START", size |-> 3, sequence |-> 0],
      [actionName |-> "CONTENT_ERROR", size |-> 3, sequence |-> 0] }

\* utils.dataSize: JSON length of an object, undefined for undefined
dataSize(data) == IF data = undefined THEN NaN ELSE data.size

RECURSIVE SumSizes(_)
SumSizes(s) == IF s = <<>> THEN 0
               ELSE (IF Head(s) = undefined THEN 0 ELSE Head(s).size) + SumSizes(Tail(s))

\* the array without its first k elements
DropFirst(s, k) == SubSeq(s, k + 1, Len(s))

\* the first k elements of an array
First(s, k) == IF Len(s) <= k THEN s ELSE SubSeq(s, 1, k)

\* the array back to front
Reverse(s) == [i \in 1..Len(s) |-> s[Len(s) + 1 - i]]

\* the concatenation of the arrays of an array
RECURSIVE Flatten(_)
Flatten(ss) == IF ss = <<>> THEN <<>> ELSE Head(ss) \o Flatten(Tail(ss))

\* the last k elements of an array
Last(s, k) == IF Len(s) <= k THEN s ELSE SubSeq(s, Len(s) - k + 1, Len(s))

(***************************************************************************)
(* NrVideoEventAggregator                                                  *)
(***************************************************************************)
maxPayloadSize == MAX_PAYLOAD_SIZE
maxEventsPerBatch == MAX_EVENTS_PER_BATCH
smartHarvestPayloadThreshold == FloorFrac(maxPayloadSize, 6, 10)
overflowPayloadThreshold == FloorFrac(maxPayloadSize, 9, 10)
smartHarvestEventThreshold == FloorFrac(maxEventsPerBatch, 6, 10)
overflowEventThreshold == FloorFrac(maxEventsPerBatch, 9, 10)

\* the fields of the aggregator that add and makeRoom work on
AggState(b, n, p) == [buffer |-> b, totalEvents |-> n, currentPayloadSize |-> p]

\* Array.prototype.findIndex(e => e.actionName === actionName):
\* 1-based position of the first match, 0 for "not found" (-1 in JS)
RECURSIVE findIndexFrom(_, _, _)
findIndexFrom(b, actionName, i) ==
    IF i > Len(b) THEN 0
    ELSE IF b[i] # undefined /\ b[i].actionName = actionName THEN i
    ELSE findIndexFrom(b, actionName, i + 1)

findIndex(b, actionName) == findIndexFrom(b, actionName, 1)

\* the predicate of findIndex dereferences e.actionName: it throws a
\* TypeError when it visits an empty slot before it finds a match
findIndexThrows(b, actionName) ==
    \E i \in 1..Len(b) :
        /\ b[i] = undefined
        /\ \A j \in 1..(i - 1) : b[j] = undefined \/ b[j].actionName # actionName

\* makeRoom's while loop
RECURSIVE makeRoomLoop(_, _)
makeRoomLoop(st, newEventSize) ==
    IF st.totalEvents >= maxEventsPerBatch
       \/ NumGe(NumAdd(st.currentPayloadSize, newEventSize), maxPayloadSize)
    THEN IF Len(st.buffer) > 0
         THEN makeRoomLoop(AggState(Tail(st.buffer),
                                    st.totalEvents - 1,
                                    NumSub(st.currentPayloadSize, dataSize(Head(st.buffer)))),
                           newEventSize)
         ELSE st
    ELSE st

makeRoom(st, newEventSize) ==
    IF NumGt(newEventSize, maxPayloadSize) THEN st
    ELSE makeRoomLoop(st, newEventSize)

\* buffer[index] for a 1-based index, undefined outside the array
ElementAt(b, index) == IF index \in 1..Len(b) THEN b[index] ELSE undefined

\* buffer[index] = eventObject; an index past the end grows the array and
\* leaves empty slots in between
SetElementAt(b, index, eventObject) ==
    IF index \in 1..Len(b) THEN [b EXCEPT ![index] = eventObject]
    ELSE b \o [k \in 1..(index - Len(b) - 1) |-> undefined] \o <<eventObject>>

\* add(eventObject, index) up to the threshold check; index = 0 stands for
\* "no index given"
AggAdd(st, eventObject, index) ==
    LET eventSize == dataSize(eventObject)
        wouldExceedPayload ==
            NumGe(NumAdd(st.currentPayloadSize, eventSize), maxPayloadSize)
        wouldExceedEventCount == st.totalEvents + 1 >= maxEventsPerBatch
        room == IF wouldExceedPayload \/ wouldExceedEventCount
                THEN makeRoom(st, eventSize) ELSE st
    IN  IF index > 0
        THEN AggState(SetElementAt(room.buffer, index, eventObject),
                      room.totalEvents,
                      NumAdd(room.currentPayloadSize,
                             NumSub(eventSize, dataSize(ElementAt(room.buffer, index)))))
        ELSE AggState(Append(room.buffer, eventObject),
                      room.totalEvents + 1,
                      NumAdd(room.currentPayloadSize, eventSize))

\* checkSmartHarvestTrigger testing the 60% thresholds before the 90% ones
checkSmartHarvestTriggerSmartFirst(st, registered) ==
    LET isPayloadOverflowReached == NumGe(st.currentPayloadSize, overflowPayloadThreshold)
        isEventOverflowReached == st.totalEvents >= overflowEventThreshold
        isPayloadSmartReached == NumGe(st.currentPayloadSize, smartHarvestPayloadThreshold)
        isEventSmartReached == st.totalEvents >= smartHarvestEventThreshold
    IN  IF isPayloadSmartReached \/ isEventSmartReached
        THEN (IF registered THEN << <<"smart", 60>> >> ELSE <<>>)
        ELSE IF isPayloadOverflowReached \/ isEventOverflowReached
             THEN (IF registered THEN << <<"overflow", 90>> >> ELSE <<>>)
             ELSE <<>>

\* checkSmartHarvestTrigger: the callback invocations it makes
checkSmartHarvestTrigger(st, registered) ==
    LET isPayloadOverflowReached == NumGe(st.currentPayloadSize, overflowPayloadThreshold)
        isEventOverflowReached == st.totalEvents >= overflowEventThreshold
        isPayloadSmartReached == NumGe(st.currentPayloadSize, smartHarvestPayloadThreshold)
        isEventSmartReached == st.totalEvents >= smartHarvestEventThreshold
    IN  IF isPayloadOverflowReached \/ isEventOverflowReached
        THEN (IF registered THEN << <<"overflow", 90>> >> ELSE <<>>)
        ELSE IF isPayloadSmartReached \/ isEventSmartReached
             THEN (IF registered THEN << <<"smart", 60>> >> ELSE <<>>)
             ELSE <<>>

\* the aggregator as it is now
Here == AggState(buffer, totalEvents, currentPayloadSize)

\* history: the insert did more than append eventObject to the queue
Disturbs(before, after, eventObject) == after # Append(before, eventObject)

\* history kept for an insert of eventObject
NoteInsert(eventObject, disturbed, dropped) ==
    LET fresh == Len(buffer) = 0
        bad == disturbed \/ (~fresh /\ dirty)
    IN  /\ dirty' = bad
        /\ log' = IF bad THEN <<>>
                  ELSE IF fresh THEN <<eventObject>> ELSE Append(log, eventObject)
        /\ dropBase' = IF fresh THEN dropped ELSE dropBase

\* history kept for a drain; whole says that it emptied the buffer
NoteDrain(whole) ==
    LET bad == Len(buffer) > 0 /\ (dirty \/ ~whole)
    IN  /\ dirty' = bad
        /\ log' = IF bad \/ Len(buffer) = 0 THEN <<>> ELSE log

\* NrVideoEventAggregator.add(eventObject) for an ordinary event
Agg_add(eventObject) ==
    /\ impl = "agg"
    /\ Len(buffer) < MaxQueue
    /\ currentPayloadSize < MaxPayloadTotal
    /\ LET after == AggAdd(Here, eventObject, 0)
       IN  /\ buffer' = after.buffer
           /\ totalEvents' = after.totalEvents
           /\ currentPayloadSize' = after.currentPayloadSize
           /\ triggerCalls' = checkSmartHarvestTrigger(after, onSmartHarvestTrigger)
           /\ NoteInsert(eventObject, Disturbs(buffer, after.buffer, eventObject), 0)
    /\ lastOp' = "add"
    /\ lastResult' = "true"
    /\ UNCHANGED <<impl, onSmartHarvestTrigger, eventCounter, stats, featureEnabled,
                   chunkVars, httpVars, schedVars, handlerVars>>

\* NrVideoEventAggregator.addOrReplaceByActionName(eventObject.actionName, eventObject)
Agg_addOrReplaceByActionName(eventObject) ==
    /\ impl = "agg"
    /\ Len(buffer) < MaxQueue
    /\ currentPayloadSize < MaxPayloadTotal
    /\ IF findIndexThrows(buffer, eventObject.actionName)
       THEN /\ lastResult' = "TypeError"
            /\ triggerCalls' = <<>>
            /\ UNCHANGED <<buffer, totalEvents, currentPayloadSize, log, dirty, dropBase>>
       ELSE LET i == findIndex(buffer, eventObject.actionName)
                after == AggAdd(Here, eventObject, i)
            IN  /\ buffer' = after.buffer
                /\ totalEvents' = after.totalEvents
                /\ currentPayloadSize' = after.currentPayloadSize
                /\ triggerCalls' = checkSmartHarvestTrigger(after, onSmartHarvestTrigger)
                /\ NoteInsert(eventObject, Disturbs(buffer, after.buffer, eventObject), 0)
                /\ lastResult' = "true"
    /\ lastOp' = "addOrReplace"
    /\ UNCHANGED <<impl, onSmartHarvestTrigger, eventCounter, stats, featureEnabled,
                   chunkVars, httpVars, schedVars, handlerVars>>

\* NrVideoEventAggregator.setSmartHarvestCallback(callback)
Agg_setSmartHarvestCallback ==
    /\ impl = "agg"
    /\ ~onSmartHarvestTrigger
    /\ onSmartHarvestTrigger' = TRUE
    /\ triggerCalls' = <<>>
    /\ lastOp' = "setSmartHarvestCallback"
    /\ lastResult' = "void"
    /\ UNCHANGED <<impl, buffer, totalEvents, currentPayloadSize,
                   eventCounter, stats, featureEnabled,
                   log, dirty, dropBase, chunkVars, httpVars, schedVars, handlerVars>>

\* splice(0) handing the events out newest first
spliceAllReversed(b) == Reverse(b)

\* the array returned by buffer.splice(0)
spliceAll(b) == b

\* NrVideoEventAggregator.drain()
Agg_drain ==
    /\ impl = "agg"
    /\ lastResult' = spliceAll(buffer)
    /\ buffer' = <<>>
    /\ totalEvents' = 0
    /\ currentPayloadSize' = 0
    /\ triggerCalls' = <<>>
    /\ lastOp' = "drain"
    /\ NoteDrain(TRUE)
    /\ UNCHANGED <<impl, onSmartHarvestTrigger, eventCounter, stats, featureEnabled,
                   dropBase, chunkVars, httpVars, schedVars, handlerVars>>

\* NrVideoEventAggregator.clear()
Agg_clear ==
    /\ impl = "agg"
    /\ buffer' = <<>>
    /\ totalEvents' = 0
    /\ triggerCalls' = <<>>
    /\ lastOp' = "clear"
    /\ lastResult' = "void"
    /\ log' = <<>>
    /\ dirty' = FALSE
    /\ UNCHANGED <<impl, currentPayloadSize, onSmartHarvestTrigger, eventCounter, stats,
                   featureEnabled, dropBase, chunkVars, httpVars, schedVars, handlerVars>>

NextAgg ==
    \/ \E e \in AggEvents : Agg_add(e)
    \/ \E e \in AggregateEvents : Agg_addOrReplaceByActionName(e)
    \/ Agg_setSmartHarvestCallback
    \/ Agg_drain
    \/ Agg_clear

(***************************************************************************)
(* PriorityEventBuffer                                                     *)
(***************************************************************************)
\* getConfigValue('videoAnalytics.priorityBufferSize') || 100, scaled down
maxBufferSize == MaxBufferSize

\* the fields of the buffer that add and makeRoom work on
PebState(b, n, c, s) == [buffer |-> b, totalEvents |-> n, eventCounter |-> c, stats |-> s]

PebHere == PebState(buffer, totalEvents, eventCounter, stats)

\* makeRoom() removing the newest event (pop) where the code shifts
PebMakeRoomNewest(st) ==
    IF Len(st.buffer) > 0
    THEN [st EXCEPT !.buffer = First(st.buffer, Len(st.buffer) - 1),
                    !.totalEvents = @ - 1,
                    !.stats.eventsDropped = @ + 1,
                    !.stats.bufferOverflows = @ + 1]
    ELSE st

\* PriorityEventBuffer.makeRoom()
PebMakeRoom(st) ==
    IF Len(st.buffer) > 0
    THEN [st EXCEPT !.buffer = Tail(st.buffer),
                    !.totalEvents = @ - 1,
                    !.stats.eventsDropped = @ + 1,
                    !.stats.bufferOverflows = @ + 1]
    ELSE st

\* the event as add() queues it: a sequence number is assigned when the
\* event has none (the timestamp and priority fields, which no other code
\* of the buffer reads, are left out of the event records)
Sequenced(st, eventObject) ==
    IF eventObject.sequence = 0
    THEN [eventObject EXCEPT !.sequence = st.eventCounter + 1]
    ELSE eventObject

\* the body of add(eventObject) when the feature is enabled
PebAdd(st, eventObject) ==
    LET counted == IF eventObject.sequence = 0
                   THEN [st EXCEPT !.eventCounter = @ + 1] ELSE st
        room == IF counted.totalEvents >= maxBufferSize THEN PebMakeRoom(counted) ELSE counted
    IN  [room EXCEPT !.buffer = Append(@, Sequenced(st, eventObject)),
                     !.totalEvents = @ + 1,
                     !.stats.eventsAdded = @ + 1]

\* PriorityEventBuffer.add(eventObject)
Peb_add(eventObject) ==
    /\ impl = "peb"
    /\ Len(log) < MaxLog
    /\ eventCounter < MaxCount
    /\ stats.eventsAdded < MaxCount
    /\ lastOp' = "add"
    /\ IF ~featureEnabled
       THEN /\ lastResult' = "false"
            /\ UNCHANGED <<buffer, totalEvents, eventCounter, stats, log, dirty, dropBase>>
       ELSE LET after == PebAdd(PebHere, eventObject)
                queued == Sequenced(PebHere, eventObject)
            IN  /\ buffer' = after.buffer
                /\ totalEvents' = after.totalEvents
                /\ eventCounter' = after.eventCounter
                /\ stats' = after.stats
                /\ lastResult' = "true"
                /\ LET fresh == Len(buffer) = 0
                       bad == ~fresh /\ dirty
                   IN  /\ dirty' = bad
                       /\ log' = IF bad THEN <<>>
                                 ELSE IF fresh THEN <<queued>> ELSE Append(log, queued)
                       /\ dropBase' = IF fresh THEN stats.eventsDropped ELSE dropBase
    /\ UNCHANGED <<impl, currentPayloadSize, onSmartHarvestTrigger, triggerCalls,
                   featureEnabled, chunkVars, httpVars, schedVars, handlerVars>>

\* the events drain(maxEvents) shifts out; maxEvents = 0 stands for null
PebDrained(b, n, maxEvents) ==
    LET limit == IF maxEvents # 0 THEN maxEvents ELSE n
    IN  First(b, limit)

\* PriorityEventBuffer.drain(maxEvents)
Peb_drain(maxEvents) ==
    /\ impl = "peb"
    /\ stats.eventsDrained < MaxCount
    /\ LET events == PebDrained(buffer, totalEvents, maxEvents)
       IN  /\ lastResult' = events
           /\ buffer' = DropFirst(buffer, Len(events))
           /\ totalEvents' = totalEvents - Len(events)
           /\ stats' = [stats EXCEPT !.eventsDrained = @ + Len(events)]
           /\ lastOp' = IF maxEvents = 0 THEN "drain" ELSE "drainSome"
           /\ NoteDrain(Len(events) = Len(buffer))
    /\ UNCHANGED <<impl, currentPayloadSize, onSmartHarvestTrigger, triggerCalls,
                   eventCounter, featureEnabled, dropBase, chunkVars, httpVars, schedVars, handlerVars>>

\* PriorityEventBuffer.drainSpecific(maxEvents)
Peb_drainSpecific(maxEvents) ==
    /\ impl = "peb"
    /\ stats.eventsDrained < MaxCount
    /\ lastOp' = "drainSpecific"
    /\ IF maxEvents <= 0
       THEN /\ lastResult' = <<>>
            /\ UNCHANGED <<buffer, totalEvents, stats, dirty, log>>
       ELSE LET events == First(buffer, maxEvents)
            IN  /\ lastResult' = events
                /\ buffer' = DropFirst(buffer, Len(events))
                /\ totalEvents' = totalEvents - Len(events)
                /\ stats' = [stats EXCEPT !.eventsDrained = @ + Len(events)]
                /\ NoteDrain(Len(events) = Len(buffer))
    /\ UNCHANGED <<impl, currentPayloadSize, onSmartHarvestTrigger, triggerCalls,
                   eventCounter, featureEnabled, dropBase, chunkVars, httpVars, schedVars, handlerVars>>

\* PriorityEventBuffer.clear()
Peb_clear ==
    /\ impl = "peb"
    /\ buffer' = <<>>
    /\ totalEvents' = 0
    /\ eventCounter' = 0
    /\ lastOp' = "clear"
    /\ lastResult' = "void"
    /\ log' = <<>>
    /\ dirty' = FALSE
    /\ UNCHANGED <<impl, currentPayloadSize, onSmartHarvestTrigger, triggerCalls,
                   stats, featureEnabled, dropBase, chunkVars, httpVars, schedVars, handlerVars>>

\* PriorityEventBuffer.resetStats()
Peb_resetStats ==
    /\ impl = "peb"
    /\ stats' = [eventsAdded |-> 0, eventsDropped |-> 0, eventsDrained |-> 0,
                 bufferOverflows |-> 0]
    /\ lastOp' = "resetStats"
    /\ lastResult' = "void"
    /\ dirty' = TRUE
    /\ log' = <<>>
    /\ UNCHANGED <<impl, buffer, totalEvents, currentPayloadSize, onSmartHarvestTrigger,
                   triggerCalls, eventCounter, featureEnabled, dropBase, chunkVars, httpVars, schedVars, handlerVars>>

\* the buffer after retryEvents(events): the loop unshifts events[n-1] .. events[0]
PebRetried(b, events) == events \o b

\* PriorityEventBuffer.retryEvents(events)
Peb_retryEvents(events) ==
    /\ impl = "peb"
    /\ Len(buffer) + Len(events) <= maxBufferSize + MaxRetry
    /\ lastOp' = "retryEvents"
    /\ lastResult' = "void"
    /\ IF Len(events) = 0
       THEN UNCHANGED <<buffer, totalEvents, dirty, log>>
       ELSE /\ buffer' = PebRetried(buffer, events)
            /\ totalEvents' = totalEvents + Len(events)
            /\ dirty' = TRUE
            /\ log' = <<>>
    /\ UNCHANGED <<impl, currentPayloadSize, onSmartHarvestTrigger, triggerCalls,
                   eventCounter, stats, featureEnabled, dropBase, chunkVars, httpVars, schedVars, handlerVars>>

\* PriorityEventBuffer.postHarvestCleanup(result), result.chunk being a
\* chunk of the events drained last
Peb_postHarvestCleanup(retry, chunk) ==
    IF retry /\ chunk # <<>>
    THEN Peb_retryEvents(chunk)
    ELSE /\ impl = "peb"
         /\ lastOp' = "postHarvestCleanup"
         /\ lastResult' = "void"
         /\ UNCHANGED <<impl, buffer, totalEvents, currentPayloadSize,
                        onSmartHarvestTrigger, triggerCalls, eventCounter, stats,
                        featureEnabled, log, dirty, dropBase, chunkVars, httpVars, schedVars, handlerVars>>

\* the chunks of drained events a harvest can hand back
FailedChunks ==
    IF lastOp \in {"drain", "drainSome", "drainSpecific"}
    THEN {First(lastResult, k) : k \in 0..Len(lastResult)}
    ELSE {<<>>}

NextPeb ==
    \/ \E e \in PebEvents : Peb_add(e)
    \/ \E m \in 0..1 : Peb_drain(m)
    \/ \E m \in 0..1 : Peb_drainSpecific(m)
    \/ Peb_clear
    \/ Peb_resetStats
    \/ \E c \in FailedChunks : Peb_retryEvents(c)
    \/ \E r \in BOOLEAN, c \in FailedChunks : Peb_postHarvestCleanup(r, c)

(***************************************************************************)
(* State of the objects a specification does not exercise                  *)
(***************************************************************************)
\* no request has been handed to the OptimizedHttpClient
HttpIdle ==
    /\ httpRequest = [kind |-> "none", status |-> 0, isFinalHarvest |-> FALSE,
                      sendBeacon |-> FALSE]
    /\ httpResult = <<>>

\* HarvestScheduler.performanceMetrics after construction and after resetMetrics.
\* eventsDelivered is history: the events of the chunks whose request succeeded
NoMetrics ==
    [harvestsCompleted |-> 0, harvestsSuccessful |-> 0, harvestsFailed |-> 0,
     totalEventsHarvested |-> 0, eventsDelivered |-> 0]

\* DeadLetterHandler.stats after construction and after resetStats
NoDeadLetterStats ==
    [eventsReceived |-> 0, eventsRetried |-> 0, eventsDiscarded |-> 0,
     retriesSuccessful |-> 0, retriesFailed |-> 0]

\* a number of milliseconds, as the fraction num/den
Ms(n) == [num |-> n, den |-> 1]

\* the fields of a HarvestScheduler and of its DeadLetterHandler after construction
SchedConstructed ==
    /\ isStarted = FALSE
    /\ currentTimerId = "null"
    /\ timerArmed = FALSE
    /\ orphanTimers = 0
    /\ isHarvesting = FALSE
    /\ consecutiveFailures = 0
    /\ performanceMetrics = NoMetrics
    /\ cycles = {}
    /\ deadLetterQueue = <<>>
    /\ retryTimers = {}
    /\ resends = EmptyBag
    /\ dlStats = NoDeadLetterStats
    /\ finalHarvests = 0
    /\ lastInterval = Ms(0)

\* a constructed OptimizedHttpClient (the class with a request queue).
\* requests[id] is the request object of the id-th send() and what has
\* happened to it: network attempts made, calls of its callback, the last
\* argument of the callback, and whether it was put into requestQueue.
\* queueAwaits is the request whose executeRequest the loop of processQueue
\* awaits (0: none), windowExpired tells that Date.now() has reached
\* rateLimitState.resetTime, delivered is the history of the payloads whose
\* successful send put the entry into requestCache that is still there
ClientConstructed ==
    httpClient = [pendingRequests |-> {}, requestQueue |-> <<>>,
                  isProcessingQueue |-> FALSE, queueAwaits |-> 0,
                  rateLimitRequests |-> 0, windowExpired |-> FALSE,
                  retryTimers |-> {}, requestCache |-> {},
                  deduplicationCount |-> 0, requests |-> <<>>,
                  delivered |-> {}]

\* a constructed RetryQueueHandler.  retryEvents is what the last
\* getRetryEventsToFit returned, received counts the events handed to
\* addFailedEvents, hung tells that a call never returned
RetryQueueConstructed ==
    retryQueueHandler = [retryQueue |-> <<>>, retryEvents |-> <<>>,
                         received |-> 0, hung |-> FALSE]

\* the legacy Harvester has not harvested
NoLegacyHarvest == legacyHarvester = [harvests |-> 0, requests |-> {}]

\* no retry delay has been computed
NoRetryDelay ==
    retryDelay = [retryCount |-> 0, random |-> [num |-> 0, den |-> 1],
                  delay |-> Ms(0)]

\* no HarvestScheduler is part of the specification
SchedIdle ==
    /\ SchedConstructed
    /\ harvestCycle = 0
    /\ adaptiveConfig = [enabled |-> FALSE]
    /\ env = [deadLetterHandling |-> FALSE, applicationID |-> FALSE,
              sendBeacon |-> FALSE]
    /\ RetryQueueConstructed
    /\ ClientConstructed
    /\ NoLegacyHarvest
    /\ NoRetryDelay

(***************************************************************************)
(* The agent's event buffer                                                *)
(***************************************************************************)
Init ==
    /\ impl \in {"agg", "peb"}
    /\ buffer = <<>>
    /\ totalEvents = 0
    /\ currentPayloadSize = 0
    /\ onSmartHarvestTrigger = FALSE
    /\ triggerCalls = <<>>
    /\ eventCounter = 0
    /\ stats = [eventsAdded |-> 0, eventsDropped |-> 0, eventsDrained |-> 0,
                bufferOverflows |-> 0]
    /\ featureEnabled \in (IF impl = "peb" THEN BOOLEAN ELSE {TRUE})
    /\ lastOp = "init"
    /\ lastResult = "void"
    /\ log = <<>>
    /\ dirty = FALSE
    /\ dropBase = 0
    /\ chunkInput = <<>>
    /\ chunkFinal = FALSE
    /\ chunks = <<>>
    /\ HttpIdle
    /\ SchedIdle

Next == NextAgg \/ NextPeb

Spec == Init /\ [][Next]_vars

(***************************************************************************)
(* BaseHarvester: chunking                                                 *)
(***************************************************************************)
\* events handed to chunkEvents
ChunkEvents ==
    { [actionName |-> "CONTENT_START", size |-> 1, sequence |-> 0],
      [actionName |-> "CONTENT_HEARTBEAT", size |-> 5, sequence |-> 0],
      [actionName |-> "CONTENT_BUFFER_START", size |-> MAX_PAYLOAD_SIZE - 8, sequence |-> 0],
      [actionName |-> "CONTENT_ERROR", size |-> MAX_PAYLOAD_SIZE + 3, sequence |-> 0] }

\* the sequences over S of length at most n
RECURSIVE SeqsUpTo(_, _)
SeqsUpTo(S, n) ==
    IF n = 0 THEN {<<>>}
    ELSE LET shorter == SeqsUpTo(S, n - 1)
         IN  shorter \cup {Append(q, x) : q \in shorter, x \in S}

\* length of the text {"ins":[]} that wraps the events of a chunk
EnvelopeBytes == 10

\* calculateChunkSize(chunk): bytes of JSON.stringify({ins: chunk}), the
\* events being separated by commas
calculateChunkSize(chunk) ==
    EnvelopeBytes + SumSizes(chunk) + (IF Len(chunk) > 1 THEN Len(chunk) - 1 ELSE 0)

\* getMaxChunkSize(isFinalHarvest)
getMaxChunkSize(isFinalHarvest) ==
    IF isFinalHarvest THEN MAX_BEACON_SIZE ELSE MAX_PAYLOAD_SIZE

\* the loop body losing the event that did not fit (currentChunk = [])
chunkStepDropping(acc, event, maxChunkSize) ==
    LET full == Len(acc.currentChunk) >= MAX_EVENTS_PER_BATCH
        chunks1 == IF full THEN Append(acc.chunks, acc.currentChunk) ELSE acc.chunks
        current1 == IF full THEN <<>> ELSE acc.currentChunk
        pushed == Append(current1, event)
    IN  IF calculateChunkSize(pushed) > maxChunkSize
        THEN [chunks |-> IF Len(current1) > 0 THEN Append(chunks1, current1) ELSE chunks1,
              currentChunk |-> <<>>]
        ELSE [chunks |-> chunks1, currentChunk |-> pushed]

\* the loop body without the event count check
chunkStepUncounted(acc, event, maxChunkSize) ==
    LET pushed == Append(acc.currentChunk, event)
    IN  IF calculateChunkSize(pushed) > maxChunkSize
        THEN [chunks |-> IF Len(acc.currentChunk) > 0
                         THEN Append(acc.chunks, acc.currentChunk) ELSE acc.chunks,
              currentChunk |-> <<event>>]
        ELSE [chunks |-> acc.chunks, currentChunk |-> pushed]

\* one pass of the for loop of chunkEvents; acc holds chunks and currentChunk
chunkStep(acc, event, maxChunkSize) ==
    LET full == Len(acc.currentChunk) >= MAX_EVENTS_PER_BATCH
        chunks1 == IF full THEN Append(acc.chunks, acc.currentChunk) ELSE acc.chunks
        current1 == IF full THEN <<>> ELSE acc.currentChunk
        pushed == Append(current1, event)
    IN  IF calculateChunkSize(pushed) > maxChunkSize
        THEN [chunks |-> IF Len(current1) > 0 THEN Append(chunks1, current1) ELSE chunks1,
              currentChunk |-> <<event>>]
        ELSE [chunks |-> chunks1, currentChunk |-> pushed]

RECURSIVE chunkLoop(_, _, _)
chunkLoop(acc, events, maxChunkSize) ==
    IF events = <<>> THEN acc
    ELSE chunkLoop(chunkStep(acc, Head(events), maxChunkSize), Tail(events), maxChunkSize)

\* BaseHarvester.chunkEvents(events, maxChunkSize)
chunkEvents(events, maxChunkSize) ==
    LET acc == chunkLoop([chunks |-> <<>>, currentChunk |-> <<>>], events, maxChunkSize)
    IN  IF Len(acc.currentChunk) > 0 THEN Append(acc.chunks, acc.currentChunk)
        ELSE acc.chunks

\* a harvest chunks the events it drained
ChunkEventsCall ==
    /\ lastOp = "harvest"
    /\ chunks' = chunkEvents(chunkInput, getMaxChunkSize(chunkFinal))
    /\ lastOp' = "chunkEvents"
    /\ UNCHANGED <<impl, buffer, totalEvents, currentPayloadSize, onSmartHarvestTrigger,
                   triggerCalls, eventCounter, stats, featureEnabled, lastResult, log,
                   dirty, dropBase, chunkInput, chunkFinal, httpVars, schedVars, handlerVars>>

InitChunk ==
    /\ impl = "none"
    /\ buffer = <<>>
    /\ totalEvents = 0
    /\ currentPayloadSize = 0
    /\ onSmartHarvestTrigger = FALSE
    /\ triggerCalls = <<>>
    /\ eventCounter = 0
    /\ stats = [eventsAdded |-> 0, eventsDropped |-> 0, eventsDrained |-> 0,
                bufferOverflows |-> 0]
    /\ featureEnabled = TRUE
    /\ lastOp = "harvest"
    /\ lastResult = "void"
    /\ log = <<>>
    /\ dirty = FALSE
    /\ dropBase = 0
    /\ chunkInput \in SeqsUpTo(ChunkEvents, MaxChunkInput)
    /\ chunkFinal \in BOOLEAN
    /\ chunks = <<>>
    /\ HttpIdle
    /\ SchedIdle

NextChunk == ChunkEventsCall

SpecChunk == InitChunk /\ [][NextChunk]_vars

(***************************************************************************)
(* OptimizedHttpClient and shouldRetry                                     *)
(***************************************************************************)
\* an empty PriorityEventBuffer, no aggregator callback, nothing chunked
BufferConstructed ==
    /\ buffer = <<>>
    /\ totalEvents = 0
    /\ currentPayloadSize = 0
    /\ onSmartHarvestTrigger = FALSE
    /\ triggerCalls = <<>>
    /\ eventCounter = 0
    /\ stats = [eventsAdded |-> 0, eventsDropped |-> 0, eventsDrained |-> 0,
                bufferOverflows |-> 0]
    /\ featureEnabled = TRUE
    /\ lastResult = "void"
    /\ log = <<>>
    /\ dirty = FALSE
    /\ dropBase = 0
    /\ chunkInput = <<>>
    /\ chunkFinal = FALSE
    /\ chunks = <<>>

\* response.status values a server can answer with
HttpStatuses ==
    {200, 201, 202, 204, 299, 300, 304, 400, 401, 403, 404, 407, 408, 409, 428, 429,
     430, 499, 500, 501, 502, 503, 504, 505, 511, 512, 513, 520, 529, 530, 531, 599}

\* what the network does with a request: fetch resolves with a response,
\* fetch rejects, the 10 s abort timer fires, or sendBeacon returns true / false
HttpOutcomes(isFinalHarvest, sendBeacon) ==
    IF isFinalHarvest /\ sendBeacon
    THEN {[kind |-> k, status |-> 0, isFinalHarvest |-> TRUE, sendBeacon |-> TRUE] :
              k \in {"beaconQueued", "beaconRefused"}}
    ELSE {[kind |-> "response", status |-> st, isFinalHarvest |-> isFinalHarvest,
           sendBeacon |-> sendBeacon] : st \in HttpStatuses}
         \cup {[kind |-> k, status |-> 0, isFinalHarvest |-> isFinalHarvest,
                sendBeacon |-> sendBeacon] : k \in {"networkError", "timeout"}}

\* utils.shouldRetry
shouldRetry(status) ==
    CASE status \in {408, 429, 500} -> TRUE
      [] status \in {401, 403, 404} -> FALSE
      [] OTHER -> (status >= 502 /\ status <= 504) \/ (status >= 512 /\ status <= 530)

\* Response.ok
ResponseOk(status) == status >= 200 /\ status <= 299

\* OptimizedHttpClient.executeRequest: the `result` it hands to handleRequestComplete
executeRequest(request) ==
    CASE request.kind = "beaconQueued" -> [success |-> TRUE, status |-> 204]
      [] request.kind = "beaconRefused" -> [success |-> FALSE, status |-> 0]
      [] request.kind = "response" ->
             [success |-> ResponseOk(request.status), status |-> request.status]
      [] OTHER -> [success |-> FALSE, status |-> 0]

\* the same with the status test of shouldRetry left out
handleRequestCompleteNetworkOnly(result) ==
    [retry |-> ~result.success /\ result.status = 0, status |-> result.status]

\* OptimizedHttpClient.handleRequestComplete: the argument of the callback
handleRequestComplete(result) ==
    [retry |-> ~result.success /\ (result.status = 0 \/ shouldRetry(result.status)),
     status |-> result.status]

\* OptimizedHttpClient.send of a request with a url and a payload, up to its callback
Http_send ==
    /\ lastOp = "request"
    /\ httpResult' = Append(httpResult, handleRequestComplete(executeRequest(httpRequest)))
    /\ lastOp' = "send"
    /\ UNCHANGED <<impl, buffer, totalEvents, currentPayloadSize, onSmartHarvestTrigger,
                   triggerCalls, eventCounter, stats, featureEnabled, lastResult, log,
                   dirty, dropBase, chunkVars, httpRequest, schedVars, handlerVars>>

InitHttp ==
    /\ impl = "none"
    /\ lastOp = "request"
    /\ BufferConstructed
    /\ SchedIdle
    /\ httpResult = <<>>
    /\ \E f \in BOOLEAN, b \in BOOLEAN : httpRequest \in HttpOutcomes(f, b)

NextHttp == Http_send

SpecHttp == InitHttp /\ [][NextHttp]_vars

(***************************************************************************)
(* HarvestScheduler with its PriorityEventBuffer and DeadLetterHandler.    *)
(* The handlers are written as functions on the record of all fields; an   *)
(* action is one task of the event loop: a call from the page, a timer, a  *)
(* lifecycle event or a network completion, run up to its next suspension. *)
(* Times, and the counters that only measure them, are left out.           *)
(***************************************************************************)
\* Constants.INTERVAL: the default harvestCycle
INTERVAL == 10000

\* events the page records; add() numbers them
SchedEvents ==
    { [actionName |-> "CONTENT_START", size |-> 3, sequence |-> 0],
      [actionName |-> "CONTENT_HEARTBEAT", size |-> 12, sequence |-> 0] }

\* the fields of the three objects at the start of a task
SchedHere ==
    [buffer |-> buffer, totalEvents |-> totalEvents, eventCounter |-> eventCounter,
     stats |-> stats, isStarted |-> isStarted, currentTimerId |-> currentTimerId,
     timerArmed |-> timerArmed, orphanTimers |-> orphanTimers,
     harvestCycle |-> harvestCycle, isHarvesting |-> isHarvesting,
     consecutiveFailures |-> consecutiveFailures,
     performanceMetrics |-> performanceMetrics, cycles |-> cycles,
     deadLetterQueue |-> deadLetterQueue, retryTimers |-> retryTimers,
     resends |-> resends, dlStats |-> dlStats, finalHarvests |-> finalHarvests,
     lastResult |-> lastResult]

\* the fields after a task
SchedSet(st) ==
    /\ buffer' = st.buffer
    /\ totalEvents' = st.totalEvents
    /\ eventCounter' = st.eventCounter
    /\ stats' = st.stats
    /\ isStarted' = st.isStarted
    /\ currentTimerId' = st.currentTimerId
    /\ timerArmed' = st.timerArmed
    /\ orphanTimers' = st.orphanTimers
    /\ harvestCycle' = st.harvestCycle
    /\ isHarvesting' = st.isHarvesting
    /\ consecutiveFailures' = st.consecutiveFailures
    /\ performanceMetrics' = st.performanceMetrics
    /\ cycles' = st.cycles
    /\ deadLetterQueue' = st.deadLetterQueue
    /\ retryTimers' = st.retryTimers
    /\ resends' = st.resends
    /\ dlStats' = st.dlStats
    /\ finalHarvests' = st.finalHarvests
    /\ lastResult' = st.lastResult
    /\ UNCHANGED <<impl, currentPayloadSize, onSmartHarvestTrigger, triggerCalls,
                   featureEnabled, log, dirty, dropBase, chunkVars,
                   httpVars, adaptiveConfig, env, lastInterval, handlerVars>>

\* HarvestScheduler.scheduleNextHarvest: setTimeout overwrites currentTimerId;
\* a timer that was armed under the old id stays armed
scheduleNextHarvest(st) ==
    IF ~st.isStarted
    THEN st
    ELSE [st EXCEPT !.orphanTimers = IF st.timerArmed THEN @ + 1 ELSE @,
                    !.timerArmed = TRUE,
                    !.currentTimerId = "set"]

\* HarvestScheduler.startScheduler
startScheduler(st) ==
    IF st.isStarted THEN st ELSE scheduleNextHarvest([st EXCEPT !.isStarted = TRUE])

\* HarvestScheduler.stopScheduler
stopScheduler(st) ==
    IF ~st.isStarted
    THEN st
    ELSE IF st.currentTimerId # "null"
         THEN [st EXCEPT !.isStarted = FALSE, !.timerArmed = FALSE,
                         !.currentTimerId = "null"]
         ELSE [st EXCEPT !.isStarted = FALSE]

\* HarvestScheduler.setHarvestInterval
setHarvestInterval(st, intervalMs) ==
    IF intervalMs < 1000 \/ intervalMs > 300000
    THEN st
    ELSE LET set == [st EXCEPT !.harvestCycle = intervalMs]
         IN  IF set.isStarted THEN startScheduler(stopScheduler(set)) ELSE set

\* DeadLetterHandler.maxRetries and maxQueueSize (3 and 5000 by default)
maxRetries == DeadLetterMaxRetries
maxQueueSize == DeadLetterMaxQueue

\* DeadLetterHandler.generateId: a fresh id for every item.  A harvested
\* event fails at most once, so its sequence number names its item.
generateId(event) == event.sequence

\* DeadLetterHandler.removeFromQueue
removeFromQueue(st, itemId) ==
    [st EXCEPT !.deadLetterQueue = SelectSeq(@, LAMBDA item : item.id # itemId),
               !.retryTimers = {t \in @ : t.id # itemId}]

\* DeadLetterHandler.discardEvent
discardEvent(st, item) ==
    [removeFromQueue(st, item.id) EXCEPT !.dlStats.eventsDiscarded = @ + 1]

\* the same without counting the evicted item as discarded
evictOldestEventUncounted(st) ==
    IF Len(st.deadLetterQueue) > 0
    THEN removeFromQueue([st EXCEPT !.deadLetterQueue = Tail(@)],
                         Head(st.deadLetterQueue).id)
    ELSE st

\* DeadLetterHandler.evictOldestEvent
evictOldestEvent(st) ==
    IF Len(st.deadLetterQueue) > 0
    THEN discardEvent([st EXCEPT !.deadLetterQueue = Tail(@)], Head(st.deadLetterQueue))
    ELSE st

\* DeadLetterHandler.scheduleRetry
scheduleRetry(st, item) ==
    IF item.retryCount >= maxRetries
    THEN discardEvent(st, item)
    ELSE [st EXCEPT !.retryTimers = @ \cup {item}]

\* DeadLetterHandler.addFailedEvents: the body of the for loop, event by event
RECURSIVE addFailedLoop(_, _)
addFailedLoop(st, events) ==
    IF events = <<>>
    THEN st
    ELSE LET item == [id |-> generateId(Head(events)), event |-> Head(events),
                      retryCount |-> 0]
             room == IF Len(st.deadLetterQueue) >= maxQueueSize
                     THEN evictOldestEvent(st) ELSE st
             pushed == [room EXCEPT !.deadLetterQueue = Append(@, item)]
             timed == scheduleRetry(pushed, item)
         IN  addFailedLoop([timed EXCEPT !.dlStats.eventsReceived = @ + 1], Tail(events))

\* DeadLetterHandler.addFailedEvents
addFailedEvents(st, events) ==
    IF ~env.deadLetterHandling THEN st ELSE addFailedLoop(st, events)

\* DeadLetterHandler.processRetry up to `await this.resendEvent(item.event)`.
\* The item is one object: the queue, the timers and the calls in flight
\* all see its incremented retryCount.  (An item has at most one armed
\* timer while maxRetries <= 2: two calls in flight put retryCount at 2.)
processRetry(st, item) ==
    LET counted == [item EXCEPT !.retryCount = @ + 1]
        inFlight == CopiesIn(item, st.resends)
    IN  [st EXCEPT !.deadLetterQueue =
                       [i \in 1..Len(@) |-> IF @[i].id = item.id THEN counted ELSE @[i]],
                   !.retryTimers = {t \in @ : t.id # item.id},
                   !.dlStats.eventsRetried = @ + 1,
                   !.resends = [r \in (DOMAIN @ \ {item}) \cup {counted} |->
                                    IF r = counted THEN inFlight + 1 ELSE @[r]]]

\* DeadLetterHandler.forceRetryAll: deadLetterQueue.map(...) up to the
\* suspension of every processRetry call
RECURSIVE forceRetryLoop(_, _)
forceRetryLoop(st, items) ==
    IF items = <<>> THEN st
    ELSE forceRetryLoop(processRetry(st, Head(items)), Tail(items))

forceRetryAll(st) == forceRetryLoop(st, st.deadLetterQueue)

\* utils.callApi: the argument of its callback
callApi(request) ==
    IF request.kind = "response"
    THEN [retry |-> shouldRetry(request.status), status |-> request.status]
    ELSE [retry |-> TRUE, status |-> 0]

\* DeadLetterHandler.handleSuccessfulRetry
handleSuccessfulRetry(st, item) ==
    [removeFromQueue(st, item.id) EXCEPT !.dlStats.retriesSuccessful = @ + 1]

\* DeadLetterHandler.handleFailedRetry
handleFailedRetry(st, item) ==
    LET counted == [st EXCEPT !.dlStats.retriesFailed = @ + 1]
    IN  IF item.retryCount >= maxRetries
        THEN discardEvent(counted, item)
        ELSE scheduleRetry(counted, item)

\* DeadLetterHandler.processRetry from the resolution of resendEvent on
resendComplete(st, item, request) ==
    LET success == ~callApi(request).retry
        done == [st EXCEPT !.resends = @ (-) SetToBag({item})]
    IN  IF success THEN handleSuccessfulRetry(done, item)
        ELSE handleFailedRetry(done, item)

\* the options of a triggerHarvest call; timer tells that onHarvestInterval awaits it
Options(force, isFinalHarvest, timer) ==
    [force |-> force, isFinalHarvest |-> isFinalHarvest, timer |-> timer]

\* sendChunk handing over the chunk after the one that is due
sendChunkSkipping(st, cycle) ==
    [st EXCEPT !.cycles = @ \cup
        {[cycle EXCEPT !.results = Append(@, [success |-> FALSE, status |-> 0,
                                              eventCount |-> 0])]}]

\* HarvestScheduler.sendChunk up to the suspension of httpClient.send: the
\* client holds the request of chunk Len(results) + 1 of every cycle in cycles
sendChunk(st, cycle) ==
    [st EXCEPT !.cycles = @ \cup {cycle}]

\* results.reduce((sum, r) => sum + r.eventCount, 0)
RECURSIVE SumEventCount(_)
SumEventCount(results) ==
    IF results = <<>> THEN 0 ELSE Head(results).eventCount + SumEventCount(Tail(results))

\* HarvestScheduler.analyzeHarvestResults
analyzeHarvestResults(results) ==
    [success |-> \E i \in 1..Len(results) : results[i].success,
     totalEvents |-> SumEventCount(results)]

\* HarvestScheduler.updateHarvestMetrics
updateHarvestMetrics(st, result) ==
    LET counted == [st EXCEPT !.performanceMetrics.harvestsCompleted = @ + 1,
                              !.performanceMetrics.totalEventsHarvested =
                                   @ + result.totalEvents]
    IN  IF result.success
        THEN [counted EXCEPT !.performanceMetrics.harvestsSuccessful = @ + 1,
                             !.consecutiveFailures = 0]
        ELSE [counted EXCEPT !.performanceMetrics.harvestsFailed = @ + 1,
                             !.consecutiveFailures = @ + 1]

\* HarvestScheduler.handleHarvestFailure
handleHarvestFailure(st) == [st EXCEPT !.consecutiveFailures = @ + 1]

\* the end of a triggerHarvest call without the `finally` block
resolvedFlagKept(st, timer) == IF timer THEN scheduleNextHarvest(st) ELSE st

\* the end of a triggerHarvest call: `finally` clears isHarvesting, and
\* onHarvestInterval, when it awaited the call, schedules the next harvest
resolved(st, timer) ==
    LET cleared == [st EXCEPT !.isHarvesting = FALSE]
    IN  IF timer THEN scheduleNextHarvest(cleared) ELSE cleared

\* the same, counted as a failed harvest
harvestInProgressCounted(st, timer) ==
    LET skipped == handleHarvestFailure([st EXCEPT !.lastResult = "harvest_in_progress"])
    IN  IF timer THEN scheduleNextHarvest(skipped) ELSE skipped

\* triggerHarvest called while a harvest is in progress, without force: it
\* returns harvest_in_progress, and onHarvestInterval, when it made the
\* call, schedules the next harvest
harvestInProgress(st, timer) ==
    LET skipped == [st EXCEPT !.lastResult = "harvest_in_progress"]
    IN  IF timer THEN scheduleNextHarvest(skipped) ELSE skipped

\* HarvestScheduler.triggerHarvest up to its first suspension
triggerHarvest(st, options) ==
    IF st.isHarvesting /\ ~options.force
    THEN harvestInProgress(st, options.timer)
    ELSE LET begun == [st EXCEPT !.isHarvesting = TRUE]
         IN  IF begun.totalEvents = 0 /\ ~options.force
             THEN resolved([begun EXCEPT !.lastResult = "no_events"],
                           options.timer)
             ELSE LET events == PebDrained(begun.buffer, begun.totalEvents, 0)
                      drained == [begun EXCEPT
                                     !.buffer = DropFirst(@, Len(events)),
                                     !.totalEvents = @ - Len(events),
                                     !.stats.eventsDrained = @ + Len(events),
                                     !.finalHarvests =
                                         IF options.isFinalHarvest /\ Len(events) > 0
                                         THEN @ + 1 ELSE @]
                  IN  IF Len(events) = 0
                      THEN resolved([drained EXCEPT !.lastResult = "no_events_drained"],
                                    options.timer)
                      ELSE IF ~env.applicationID
                      THEN resolved(handleHarvestFailure(
                                        [drained EXCEPT !.lastResult = "error"]),
                                    options.timer)
                      ELSE sendChunk([drained EXCEPT !.lastResult = "sending"],
                                     [chunks |-> chunkEvents(events,
                                          getMaxChunkSize(options.isFinalHarvest)),
                                      isFinalHarvest |-> options.isFinalHarvest,
                                      timer |-> options.timer,
                                      results |-> <<>>])

\* the same with every chunk that did not succeed handed to the dead letter
\* handler, retryable or not
chunkCompleteAllFailures(st, cycle, request) ==
    LET result == handleRequestComplete(executeRequest(request))
        chunk == cycle.chunks[Len(cycle.results) + 1]
        failed == IF ~executeRequest(request).success
                  THEN addFailedEvents(st, chunk) ELSE st
        chunkResult == [success |-> ~result.retry, status |-> result.status,
                        eventCount |-> Len(chunk)]
        next == [cycle EXCEPT !.results = Append(@, chunkResult)]
        left == [failed EXCEPT !.cycles = @ \ {cycle},
                               !.performanceMetrics.eventsDelivered =
                                    IF executeRequest(request).success
                                    THEN @ + Len(chunk) ELSE @]
    IN  IF Len(next.results) < Len(next.chunks)
        THEN sendChunk(left, next)
        ELSE resolved(updateHarvestMetrics(left, analyzeHarvestResults(next.results)),
                      cycle.timer)

\* HarvestScheduler.sendChunk from the callback of httpClient.send on, and
\* triggerHarvest from the resolution of `await this.sendChunk(...)` on
chunkComplete(st, cycle, request) ==
    LET result == handleRequestComplete(executeRequest(request))
        chunk == cycle.chunks[Len(cycle.results) + 1]
        failed == IF result.retry THEN addFailedEvents(st, chunk) ELSE st
        chunkResult == [success |-> ~result.retry, status |-> result.status,
                        eventCount |-> Len(chunk)]
        next == [cycle EXCEPT !.results = Append(@, chunkResult)]
        left == [failed EXCEPT !.cycles = @ \ {cycle},
                               !.performanceMetrics.eventsDelivered =
                                    IF executeRequest(request).success
                                    THEN @ + Len(chunk) ELSE @]
    IN  IF Len(next.results) < Len(next.chunks)
        THEN sendChunk(left, next)
        ELSE resolved(updateHarvestMetrics(left, analyzeHarvestResults(next.results)),
                      cycle.timer)

\* a final harvest sent with navigator.sendBeacon never waits for the network:
\* the whole cycle runs as microtasks of the task that started it
MicrotaskPending == \E c \in cycles : c.isFinalHarvest /\ env.sendBeacon

\* timer-driven scheduling loops: an armed timer, or an onHarvestInterval
\* that awaits its harvest
TimerLoops ==
    (IF timerArmed THEN 1 ELSE 0) + orphanTimers + Cardinality({c \in cycles : c.timer})

\* what the network does with a request of the scheduler or of the retry handler
SchedOutcomes(isFinalHarvest) ==
    {o \in HttpOutcomes(isFinalHarvest, env.sendBeacon) :
         /\ o.kind # "timeout"
         /\ o.kind = "response" => o.status \in {200, 404, 503}}

\* VideoAnalyticsAgent.addEvent -> PriorityEventBuffer.add
Sched_addEvent(eventObject) ==
    /\ impl = "sched"
    /\ ~MicrotaskPending
    /\ eventCounter < MaxSchedEvents
    /\ SchedSet(PebAdd(SchedHere, eventObject))
    /\ UNCHANGED lastOp

\* HarvestScheduler.startScheduler()
Sched_startScheduler ==
    /\ impl = "sched"
    /\ ~MicrotaskPending
    /\ TimerLoops <= MaxTimers
    /\ SchedSet(startScheduler(SchedHere))
    /\ UNCHANGED lastOp

\* HarvestScheduler.stopScheduler()
Sched_stopScheduler ==
    /\ impl = "sched"
    /\ ~MicrotaskPending
    /\ SchedSet(stopScheduler(SchedHere))
    /\ UNCHANGED lastOp

\* HarvestScheduler.setHarvestInterval(intervalMs)
Sched_setHarvestInterval(intervalMs) ==
    /\ impl = "sched"
    /\ ~MicrotaskPending
    /\ TimerLoops <= MaxTimers
    /\ SchedSet(setHarvestInterval(SchedHere, intervalMs))
    /\ UNCHANGED lastOp

\* a harvest timer fires: HarvestScheduler.onHarvestInterval
Sched_onHarvestInterval ==
    /\ impl = "sched"
    /\ ~MicrotaskPending
    /\ \E fired \in {"current", "orphan"} :
          /\ fired = "current" => timerArmed
          /\ fired = "orphan" => orphanTimers > 0
          /\ LET st == IF fired = "current"
                       THEN [SchedHere EXCEPT !.timerArmed = FALSE]
                       ELSE [SchedHere EXCEPT !.orphanTimers = @ - 1]
             IN  SchedSet(triggerHarvest(st, Options(FALSE, FALSE, TRUE)))
    /\ UNCHANGED lastOp

\* HarvestScheduler.forceHarvest()
Sched_forceHarvest ==
    /\ impl = "sched"
    /\ ~MicrotaskPending
    /\ SchedSet(triggerHarvest(SchedHere, Options(TRUE, FALSE, FALSE)))
    /\ UNCHANGED lastOp

\* the events setupPageLifecycleHandlers listens to
TeardownSignals == {"visibilitychange", "pagehide", "beforeunload"}

\* the listeners of setupPageLifecycleHandlers: visibilitychange with
\* document.hidden, pagehide, beforeunload
Sched_teardown(signal) ==
    /\ impl = "sched"
    /\ ~MicrotaskPending
    /\ SchedSet(triggerHarvest(SchedHere, Options(FALSE, TRUE, FALSE)))
    /\ signal \in TeardownSignals
    /\ UNCHANGED lastOp

\* the request of a harvest cycle completes
Sched_chunkComplete(cycle, request) ==
    /\ impl = "sched"
    /\ cycle \in cycles
    /\ MicrotaskPending => cycle.isFinalHarvest
    /\ SchedSet(chunkComplete(SchedHere, cycle, request))
    /\ UNCHANGED lastOp

\* the retry timer of a dead letter item fires
Dl_processRetry(item) ==
    /\ impl = "sched"
    /\ ~MicrotaskPending
    /\ item \in retryTimers
    /\ SchedSet(processRetry(SchedHere, item))
    /\ UNCHANGED lastOp

\* the request of a retry completes
Dl_resendComplete(item, request) ==
    /\ impl = "sched"
    /\ ~MicrotaskPending
    /\ BagIn(item, resends)
    /\ SchedSet(resendComplete(SchedHere, item, request))
    /\ UNCHANGED lastOp

\* DeadLetterHandler.forceRetryAll()
Dl_forceRetryAll ==
    /\ impl = "sched"
    /\ ~MicrotaskPending
    /\ deadLetterQueue # <<>>
    /\ \A i \in 1..Len(deadLetterQueue) : deadLetterQueue[i].retryCount < MaxForced
    /\ SchedSet(forceRetryAll(SchedHere))
    /\ UNCHANGED lastOp

\* setHarvestInterval arguments: below the accepted range, and inside it
HarvestIntervals == {999, INTERVAL}

\* a scheduler whose dead letter handling feature is switched off
InitSched ==
    /\ impl = "sched"
    /\ lastOp = "init"
    /\ BufferConstructed
    /\ HttpIdle
    /\ RetryQueueConstructed
    /\ ClientConstructed
    /\ NoLegacyHarvest
    /\ NoRetryDelay
    /\ SchedConstructed
    /\ harvestCycle = INTERVAL
    /\ adaptiveConfig = [enabled |-> TRUE]
    /\ env \in [deadLetterHandling : {FALSE}, applicationID : BOOLEAN,
                 sendBeacon : BOOLEAN]

NextSched ==
    \/ \E e \in SchedEvents : Sched_addEvent(e)
    \/ Sched_startScheduler
    \/ Sched_stopScheduler
    \/ \E ms \in HarvestIntervals : Sched_setHarvestInterval(ms)
    \/ Sched_onHarvestInterval
    \/ Sched_forceHarvest
    \/ \E signal \in TeardownSignals : Sched_teardown(signal)
    \/ \E c \in cycles : \E o \in SchedOutcomes(c.isFinalHarvest) :
           Sched_chunkComplete(c, o)

SpecSched == InitSched /\ [][NextSched]_vars

\* the scheduler after VideoAnalyticsAgent.initialize: constructed, then
\* startScheduler() has armed the first timer
SchedStarted ==
    /\ isStarted = TRUE
    /\ currentTimerId = "set"
    /\ timerArmed = TRUE
    /\ orphanTimers = 0
    /\ isHarvesting = FALSE
    /\ consecutiveFailures = 0
    /\ performanceMetrics = NoMetrics
    /\ cycles = {}
    /\ deadLetterQueue = <<>>
    /\ retryTimers = {}
    /\ resends = EmptyBag
    /\ dlStats = NoDeadLetterStats
    /\ finalHarvests = 0
    /\ lastInterval = Ms(0)

\* a configured agent with dead letter handling in a browser with
\* navigator.sendBeacon, after initialize(); the scheduler is never stopped
InitRetry ==
    /\ impl = "sched"
    /\ lastOp = "init"
    /\ BufferConstructed
    /\ HttpIdle
    /\ RetryQueueConstructed
    /\ ClientConstructed
    /\ NoLegacyHarvest
    /\ NoRetryDelay
    /\ SchedStarted
    /\ harvestCycle = INTERVAL
    /\ adaptiveConfig = [enabled |-> TRUE]
    /\ env \in [deadLetterHandling : {TRUE}, applicationID : {TRUE},
                 sendBeacon : {TRUE}]

NextRetry ==
    \/ \E e \in SchedEvents : Sched_addEvent(e)
    \/ Sched_onHarvestInterval
    \/ Sched_forceHarvest
    \/ \E signal \in TeardownSignals : Sched_teardown(signal)
    \/ \E c \in cycles : \E o \in SchedOutcomes(c.isFinalHarvest) :
           Sched_chunkComplete(c, o)
    \/ \E t \in retryTimers : Dl_processRetry(t)
    \/ \E r \in BagToSet(resends) : \E o \in SchedOutcomes(FALSE) : Dl_resendComplete(r, o)

SpecRetry == InitRetry /\ [][NextRetry]_vars

(***************************************************************************)
(* Properties                                                              *)
(***************************************************************************)
\* the positions of the queue that hold an event
Queued == {i \in 1..Len(buffer) : buffer[i] # undefined}

\* the last operation was an insert that returned normally
Inserted == lastOp \in {"add", "addOrReplace"} /\ lastResult = "true"

\* C1: when the inserts since the buffer was last empty evicted nothing and
\* replaced nothing, drain() returns exactly the inserted events in
\* insertion order.
C1_BufferFifo ==
    (lastOp = "drain" /\ ~dirty /\ stats.eventsDropped = dropBase)
        => lastResult = log

C1_Witness ==
    /\ lastOp = "drain" /\ ~dirty /\ stats.eventsDropped = dropBase
    /\ Len(log) >= 3 /\ log[1] # log[2]
    /\ lastResult = log

C3_DualLimit ==
    /\ impl = "agg" => /\ Cardinality(Queued) <= maxEventsPerBatch
                       /\ SumSizes(buffer) <= maxPayloadSize
    /\ impl = "peb" => Cardinality(Queued) <= maxBufferSize

\* C4: an aggregate insert into a buffer that holds no other event leaves
\* size() = 1 and the inserted event as the only queued event.
C4_AggregateSingleton ==
    [][\A e \in AggregateEvents :
          ( /\ \A i \in 1..Len(buffer) :
                   buffer[i] # undefined /\ buffer[i].actionName = QOE_AGGREGATE
            /\ Agg_addOrReplaceByActionName(e) )
          => (totalEvents' = 1 /\ buffer' = <<e>>)]_vars

\* C5: in every reachable state at most one queued event has the reserved
\* aggregate action.
C5_AtMostOneAggregate ==
    Cardinality({i \in Queued : buffer[i].actionName = QOE_AGGREGATE}) <= 1

\* C6: in every reachable state of NrVideoEventAggregator totalEvents is the
\* length of the queue and currentPayloadSize is the sum of the sizes of the
\* queued events.
C6_RunningTotals ==
    impl = "agg" => /\ totalEvents = Len(buffer)
                    /\ currentPayloadSize = SumSizes(buffer)

\* C7: an insert of an event whose own size exceeds the maximum payload size
\* leaves the queue, totalEvents and currentPayloadSize unchanged.
C7_OversizedRejected ==
    [][\A e \in AggEvents :
          (dataSize(e) > maxPayloadSize /\ Agg_add(e))
          => UNCHANGED <<buffer, totalEvents, currentPayloadSize>>]_vars

\* the two fill fractions of section 4.2 reach p percent
FractionReached(p) ==
    \/ currentPayloadSize # NaN /\ 100 * currentPayloadSize >= p * maxPayloadSize
    \/ 100 * totalEvents >= p * maxEventsPerBatch

\* the thresholds the constructor computes with Math.floor are reached
FloorReached(p) ==
    \/ currentPayloadSize # NaN /\ currentPayloadSize >= (maxPayloadSize * p) \div 100
    \/ totalEvents >= (maxEventsPerBatch * p) \div 100

\* C8 as claimed: after an insert the registered callback is invoked with
\* "overflow" if a fill fraction is >= 0.9, else with "smart" if a fill
\* fraction is >= 0.6, else not at all.
C8_TriggerByFraction ==
    (impl = "agg" /\ Inserted /\ onSmartHarvestTrigger)
        => triggerCalls = IF FractionReached(90) THEN << <<"overflow", 90>> >>
                          ELSE IF FractionReached(60) THEN << <<"smart", 60>> >>
                          ELSE <<>>

\* C8 (amended): after an insert the registered callback is invoked at most
\* once: with "overflow" if a running total has reached floor(0.9 * maximum),
\* else with "smart" if a running total has reached floor(0.6 * maximum),
\* else not at all; without a registered callback nothing is invoked.
C8_TriggerByFloor ==
    (impl = "agg" /\ Inserted)
        => /\ Len(triggerCalls) <= 1
           /\ triggerCalls = IF ~onSmartHarvestTrigger THEN <<>>
                             ELSE IF FloorReached(90) THEN << <<"overflow", 90>> >>
                             ELSE IF FloorReached(60) THEN << <<"smart", 60>> >>
                             ELSE <<>>

C8_Witness ==
    /\ impl = "agg" /\ Inserted /\ onSmartHarvestTrigger
    /\ triggerCalls = << <<"overflow", 90>> >>
    /\ currentPayloadSize >= overflowPayloadThreshold
    /\ totalEvents < overflowEventThreshold

\* C9: the chunks returned by chunkEvents, concatenated in order, are the
\* input sequence, and no chunk is empty.
C9_ChunksPartitionInput ==
    lastOp = "chunkEvents"
        => /\ Flatten(chunks) = chunkInput
           /\ \A i \in 1..Len(chunks) : chunks[i] # <<>>

C9_Witness ==
    /\ lastOp = "chunkEvents"
    /\ Len(chunkInput) >= 4 /\ Len(chunks) >= 3
    /\ Flatten(chunks) = chunkInput

\* C10 as claimed: every chunk has at most MAX_EVENTS_PER_BATCH events and a
\* serialized size within the byte cap, unless it is a single event whose
\* own size exceeds the cap.
C10_ChunkWithinCaps ==
    lastOp = "chunkEvents"
        => \A i \in 1..Len(chunks) :
               /\ Len(chunks[i]) <= MAX_EVENTS_PER_BATCH
               /\ \/ calculateChunkSize(chunks[i]) <= getMaxChunkSize(chunkFinal)
                  \/ /\ Len(chunks[i]) = 1
                     /\ dataSize(chunks[i][1]) > getMaxChunkSize(chunkFinal)

\* C10 (amended): every chunk has at most MAX_EVENTS_PER_BATCH events and a
\* serialized size within the byte cap, unless it is a single event whose
\* size together with the envelope exceeds the cap.
C10_ChunkWithinCapsEnveloped ==
    lastOp = "chunkEvents"
        => \A i \in 1..Len(chunks) :
               /\ Len(chunks[i]) <= MAX_EVENTS_PER_BATCH
               /\ \/ calculateChunkSize(chunks[i]) <= getMaxChunkSize(chunkFinal)
                  \/ /\ Len(chunks[i]) = 1
                     /\ dataSize(chunks[i][1]) + EnvelopeBytes > getMaxChunkSize(chunkFinal)

C10_Witness ==
    /\ lastOp = "chunkEvents"
    /\ \E i \in 1..Len(chunks) :
           /\ Len(chunks[i]) = 1
           /\ calculateChunkSize(chunks[i]) > getMaxChunkSize(chunkFinal)
    /\ \E i \in 1..Len(chunks) :
           /\ Len(chunks[i]) > 1
           /\ calculateChunkSize(chunks[i]) <= getMaxChunkSize(chunkFinal)

\* the same agent with forceRetryAll(), its harvests forced by the page
NextForce ==
    \/ \E e \in SchedEvents : Sched_addEvent(e)
    \/ Sched_forceHarvest
    \/ \E c \in cycles : \E o \in SchedOutcomes(c.isFinalHarvest) :
           Sched_chunkComplete(c, o)
    \/ \E t \in retryTimers : Dl_processRetry(t)
    \/ Dl_forceRetryAll
    \/ \E r \in BagToSet(resends) : \E o \in SchedOutcomes(FALSE) : Dl_resendComplete(r, o)

SpecForce == InitRetry /\ [][NextForce]_vars

\* the same scheduler where what is pending happens: the client answers every
\* request (fetchWithTimeout ends each one), armed timers fire, and the
\* answer of every resend arrives; nothing obliges the page to record
\* further events, to force a harvest or to be torn down
RetryFairness ==
    /\ WF_vars(\E c \in cycles : \E o \in SchedOutcomes(c.isFinalHarvest) :
                   Sched_chunkComplete(c, o))
    /\ WF_vars(Sched_onHarvestInterval)
    /\ WF_vars(\E t \in retryTimers : Dl_processRetry(t))
    /\ WF_vars(\E r \in BagToSet(resends) : \E o \in SchedOutcomes(FALSE) :
                   Dl_resendComplete(r, o))

SpecRetryLive == SpecRetry /\ RetryFairness

(***************************************************************************)
(* RetryQueueHandler                                                       *)
(***************************************************************************)
\* failed events: two that fit the queue and one that does not fit even an
\* empty queue (with the two brackets of the JSON array)
RetryQueueEvents ==
    { [actionName |-> "CONTENT_START", size |-> 3, sequence |-> 0],
      [actionName |-> "CONTENT_HEARTBEAT", size |-> 7, sequence |-> 0],
      [actionName |-> "CONTENT_ERROR", size |-> MAX_PAYLOAD_SIZE - 1, sequence |-> 0] }

\* dataSize(this.retryQueue): the length of the JSON text of the array
QueueBytes(q) == 2 + SumSizes(q) + (IF Len(q) > 1 THEN Len(q) - 1 ELSE 0)

\* RetryQueueHandler.addFailedEvents: the while loop that makes room for
\* eventSize bytes; on an empty queue that is still too small it never ends
RECURSIVE RqMakeRoom(_, _)
RqMakeRoom(st, eventSize) ==
    IF QueueBytes(st.retryQueue) + eventSize > MAX_PAYLOAD_SIZE
    THEN IF st.retryQueue = <<>>
         THEN [st EXCEPT !.hung = TRUE]
         ELSE RqMakeRoom([st EXCEPT !.retryQueue = Tail(@)], eventSize)
    ELSE st

\* RetryQueueHandler.addFailedEvents: the for loop, event by event
RECURSIVE RqAddLoop(_, _)
RqAddLoop(st, events) ==
    IF events = <<>> \/ st.hung
    THEN st
    ELSE LET event == [Head(events) EXCEPT !.sequence = st.received + 1]
             counted == IF Len(st.retryQueue) >= MAX_EVENTS_PER_BATCH
                        THEN [st EXCEPT !.retryQueue = Tail(@)] ELSE st
             room == RqMakeRoom(counted, dataSize(event))
         IN  IF room.hung THEN room
             ELSE RqAddLoop([room EXCEPT !.retryQueue = Append(@, event),
                                         !.received = @ + 1], Tail(events))

\* RetryQueueHandler.getRetryEventsToFit: the loop from the end of the queue
RECURSIVE RqFitLoop(_, _, _, _, _)
RqFitLoop(st, usedSpace, eventCount, availableSpace, availableEventCount) ==
    LET q == st.retryQueue
        event == q[Len(q)]
    IN  IF q = <<>> \/ eventCount >= availableEventCount
        THEN st
        ELSE IF usedSpace + dataSize(event) > availableSpace
        THEN st
        ELSE RqFitLoop([st EXCEPT !.retryEvents = <<event>> \o @,
                                  !.retryQueue = SubSeq(q, 1, Len(q) - 1)],
                       usedSpace + dataSize(event), eventCount + 1,
                       availableSpace, availableEventCount)

\* getRetryEventsToFit without the splice: the selected events stay queued
getRetryEventsToFitKeeping(st, availableSpace, availableEventCount) ==
    [RqFitLoop([st EXCEPT !.retryEvents = <<>>], 0, 0, availableSpace,
               availableEventCount) EXCEPT !.retryQueue = st.retryQueue]

\* RetryQueueHandler.getRetryEventsToFit(availableSpace, availableEventCount)
getRetryEventsToFit(st, availableSpace, availableEventCount) ==
    RqFitLoop([st EXCEPT !.retryEvents = <<>>], 0, 0, availableSpace,
              availableEventCount)

\* the other fields of the model are left alone by RetryQueueHandler
RqFrame ==
    UNCHANGED <<impl, buffer, totalEvents, currentPayloadSize, onSmartHarvestTrigger,
                triggerCalls, eventCounter, stats, featureEnabled, lastResult, log,
                dirty, dropBase, chunkVars, httpVars, schedVars, httpClient, retryDelay,
                legacyHarvester>>

\* RetryQueueHandler.addFailedEvents(events)
Rq_addFailedEvents(events) ==
    /\ impl = "retryQueue"
    /\ ~retryQueueHandler.hung
    /\ retryQueueHandler.received + Len(events) <= MaxFailedEvents
    /\ retryQueueHandler' = RqAddLoop(retryQueueHandler, events)
    /\ lastOp' = "addFailedEvents"
    /\ RqFrame

\* RetryQueueHandler.getRetryEventsToFit(availableSpace, availableEventCount)
Rq_getRetryEventsToFit(availableSpace, availableEventCount) ==
    /\ impl = "retryQueue"
    /\ ~retryQueueHandler.hung
    /\ retryQueueHandler' = getRetryEventsToFit(retryQueueHandler, availableSpace,
                                                availableEventCount)
    /\ lastOp' = "getRetryEventsToFit"
    /\ RqFrame

\* RetryQueueHandler.clear()
Rq_clear ==
    /\ impl = "retryQueue"
    /\ ~retryQueueHandler.hung
    /\ retryQueueHandler' = [retryQueueHandler EXCEPT !.retryQueue = <<>>]
    /\ lastOp' = "clear"
    /\ RqFrame

InitRetryQueue ==
    /\ impl = "retryQueue"
    /\ lastOp = "init"
    /\ BufferConstructed
    /\ HttpIdle
    /\ SchedIdle

\* byte and count budgets of getRetryEventsToFit
FitBudgets == [space : {0, 3, 10, MAX_PAYLOAD_SIZE}, count : {0, 1, 2, MAX_EVENTS_PER_BATCH}]

NextRetryQueue ==
    \/ \E events \in SeqsUpTo(RetryQueueEvents, 2) \ {<<>>} : Rq_addFailedEvents(events)
    \/ \E b \in FitBudgets : Rq_getRetryEventsToFit(b.space, b.count)
    \/ Rq_clear

SpecRetryQueue == InitRetryQueue /\ [][NextRetryQueue]_vars

(***************************************************************************)
(* Adaptive harvest interval                                               *)
(***************************************************************************)
\* adaptiveConfig.minInterval, maxInterval and backoffMultiplier (1.5 = 3/2)
minInterval == 5000
maxInterval == 60000
backoffMultiplierNum == 3
backoffMultiplierDen == 2

RECURSIVE Pow(_, _)
Pow(b, n) == IF n = 0 THEN 1 ELSE b * Pow(b, n - 1)

\* a <= b for fractions of milliseconds
Leq(a, b) == a.num * b.den <= b.num * a.den

\* Math.min and Math.max
MathMin(a, b) == IF Leq(a, b) THEN a ELSE b
MathMax(a, b) == IF Leq(b, a) THEN a ELSE b

\* the same without the lower bound
calculateNextIntervalNoMinimum(cycle, failures, config) ==
    IF ~config.enabled
    THEN Ms(cycle)
    ELSE LET interval ==
                 IF failures > 0
                 THEN MathMin([num |-> cycle * Pow(backoffMultiplierNum, failures),
                               den |-> Pow(backoffMultiplierDen, failures)],
                              Ms(maxInterval))
                 ELSE Ms(cycle)
         IN  MathMin(interval, Ms(maxInterval))

\* HarvestScheduler.calculateNextInterval
calculateNextInterval(cycle, failures, config) ==
    IF ~config.enabled
    THEN Ms(cycle)
    ELSE LET interval ==
                 IF failures > 0
                 THEN MathMin([num |-> cycle * Pow(backoffMultiplierNum, failures),
                               den |-> Pow(backoffMultiplierDen, failures)],
                              Ms(maxInterval))
                 ELSE Ms(cycle)
         IN  MathMax(MathMin(interval, Ms(maxInterval)), Ms(minInterval))

\* setHarvestInterval arguments around the limits of the accepted range and
\* of the clamp
IntervalInputs ==
    {999, 1000, 2000, 4999, 5000, 17778, 40000, 60000, 60001, 300000, 300001}

\* HarvestScheduler.setHarvestInterval(intervalMs) on a scheduler not started
Interval_setHarvestInterval(intervalMs) ==
    /\ impl = "interval"
    /\ SchedSet(setHarvestInterval(SchedHere, intervalMs))
    /\ lastOp' = "setHarvestInterval"

\* a harvest fails: handleHarvestFailure
Interval_handleHarvestFailure ==
    /\ impl = "interval"
    /\ consecutiveFailures < MaxFailures
    /\ SchedSet(handleHarvestFailure(SchedHere))
    /\ lastOp' = "handleHarvestFailure"

\* HarvestScheduler.calculateNextInterval()
Interval_calculateNextInterval ==
    /\ impl = "interval"
    /\ lastInterval' = calculateNextInterval(harvestCycle, consecutiveFailures,
                                             adaptiveConfig)
    /\ lastOp' = "calculateNextInterval"
    /\ UNCHANGED <<impl, buffer, totalEvents, eventCounter, stats, currentPayloadSize,
                   onSmartHarvestTrigger, triggerCalls, featureEnabled, lastResult,
                   log, dirty, dropBase, chunkVars, httpVars, isStarted,
                   currentTimerId, timerArmed, orphanTimers, harvestCycle,
                   isHarvesting, consecutiveFailures, adaptiveConfig,
                   performanceMetrics, cycles, deadLetterQueue, retryTimers,
                   resends, dlStats, finalHarvests, env, handlerVars>>

\* a constructed scheduler, adaptiveHarvesting enabled or not
InitInterval ==
    /\ impl = "interval"
    /\ lastOp = "init"
    /\ BufferConstructed
    /\ HttpIdle
    /\ RetryQueueConstructed
    /\ ClientConstructed
    /\ NoLegacyHarvest
    /\ NoRetryDelay
    /\ SchedConstructed
    /\ harvestCycle = INTERVAL
    /\ adaptiveConfig \in [enabled : BOOLEAN]
    /\ env = [deadLetterHandling |-> FALSE, applicationID |-> TRUE,
              sendBeacon |-> FALSE]

NextInterval ==
    \/ \E ms \in IntervalInputs : Interval_setHarvestInterval(ms)
    \/ Interval_handleHarvestFailure
    \/ Interval_calculateNextInterval

SpecInterval == InitInterval /\ [][NextInterval]_vars

(***************************************************************************)
(* Retry delays: DeadLetterHandler.calculateBackoffDelay and               *)
(* OptimizedHttpClient.calculateRetryDelay.  Delays are exact fractions of *)
(* milliseconds; Math.random() is drawn from the multiples of              *)
(* 1/RandomSteps in [0, 1).                                                *)
(***************************************************************************)
\* the retryPolicy both classes fall back to
retryPolicy ==
    [maxRetries |-> 3, backoffMultiplier |-> 2, initialDelayMs |-> 1000,
     maxDelayMs |-> 30000]

\* values of Math.random()
RandomValues == {[num |-> k, den |-> RandomSteps] : k \in 0..(RandomSteps - 1)}

\* arithmetic of fractions
Times(a, b) == [num |-> a.num * b.num, den |-> a.den * b.den]
Plus(a, b) == [num |-> a.num * b.den + b.num * a.den, den |-> a.den * b.den]
Minus(a, b) == [num |-> a.num * b.den - b.num * a.den, den |-> a.den * b.den]

\* Math.pow(b, n) for integers b > 0 and n
MathPow(b, n) ==
    IF n >= 0 THEN [num |-> Pow(b, n), den |-> 1] ELSE [num |-> 1, den |-> Pow(b, 0 - n)]

\* the delay of both functions from the exponent of the multiplier
jitteredDelay(exponent, random, config) ==
    LET exponentialDelay == Times(Ms(config.initialDelayMs),
                                  MathPow(config.backoffMultiplier, exponent))
        cappedDelay == MathMin(exponentialDelay, Ms(config.maxDelayMs))
        jitter == Times(Times(cappedDelay, [num |-> 1, den |-> 4]),
                        Minus(random, [num |-> 1, den |-> 2]))
    IN  MathMax(Plus(cappedDelay, jitter), Ms(config.initialDelayMs))

\* DeadLetterHandler.calculateBackoffDelay(retryCount)
calculateBackoffDelay(retryCount, random) ==
    jitteredDelay(retryCount, random, retryPolicy)

\* OptimizedHttpClient.calculateRetryDelay(retryCount)
calculateRetryDelay(retryCount, random) ==
    jitteredDelay(retryCount - 1, random, retryPolicy)

\* the other fields of the model are left alone by the two functions
BackoffFrame ==
    UNCHANGED <<impl, buffer, totalEvents, currentPayloadSize, onSmartHarvestTrigger,
                triggerCalls, eventCounter, stats, featureEnabled, lastResult, log,
                dirty, dropBase, chunkVars, httpVars, schedVars, retryQueueHandler,
                httpClient, legacyHarvester>>

Backoff_calculateBackoffDelay ==
    /\ impl = "backoff"
    /\ retryDelay' = [retryDelay EXCEPT
                        !.delay = calculateBackoffDelay(retryDelay.retryCount,
                                                        retryDelay.random)]
    /\ lastOp' = "calculateBackoffDelay"
    /\ BackoffFrame

Backoff_calculateRetryDelay ==
    /\ impl = "backoff"
    /\ retryDelay' = [retryDelay EXCEPT
                        !.delay = calculateRetryDelay(retryDelay.retryCount,
                                                      retryDelay.random)]
    /\ lastOp' = "calculateRetryDelay"
    /\ BackoffFrame

\* a retry count and a value of Math.random(), no delay computed yet
InitBackoff ==
    /\ impl = "backoff"
    /\ lastOp = "init"
    /\ BufferConstructed
    /\ HttpIdle
    /\ SchedConstructed
    /\ harvestCycle = 0
    /\ adaptiveConfig = [enabled |-> FALSE]
    /\ env = [deadLetterHandling |-> FALSE, applicationID |-> FALSE,
              sendBeacon |-> FALSE]
    /\ RetryQueueConstructed
    /\ ClientConstructed
    /\ NoLegacyHarvest
    /\ retryDelay \in [retryCount : 0..MaxRetryCount, random : RandomValues,
                       delay : {Ms(0)}]

NextBackoff ==
    \/ Backoff_calculateBackoffDelay
    \/ Backoff_calculateRetryDelay

SpecBackoff == InitBackoff /\ [][NextBackoff]_vars

(***************************************************************************)
(* OptimizedHttpClient with request queue, rate limit, retries and         *)
(* deduplication.  The handlers are functions on the record of the         *)
(* client's fields; an action is one task of the event loop.  A payload is *)
(* represented by the characters of its JSON text in which the payloads    *)
(* differ.  cancelRequest, clearAll and destroy are not exercised.         *)
(***************************************************************************)
\* JSON texts of payloads, as character codes: "Aa", "BB" and "C"
PayloadTexts == {<<65, 97>>, <<66, 66>>, <<67>>}

\* a payload that is missing (undefined, null)
NoPayload == <<>>

\* OptimizedHttpClient.generatePayloadHash, on the text of JSON.stringify:
\* hash = ((hash << 5) - hash) + char, kept in 32 bits by hash & hash.  The
\* texts of the model are too short for the hash to leave 32 bits
RECURSIVE hashLoop(_, _)
hashLoop(hash, str) ==
    IF str = <<>>
    THEN hash
    ELSE hashLoop(((hash * 32) - hash) + Head(str), Tail(str))

generatePayloadHash(payload) == hashLoop(0, payload)

\* what the network makes of an attempt: `result` of executeRequest
ClientResults ==
    {[success |-> TRUE, status |-> 200], [success |-> FALSE, status |-> 503],
     [success |-> FALSE, status |-> 0], [success |-> FALSE, status |-> 400]}

\* OptimizedHttpClient.shouldRetryRequest
shouldRetryRequest(result) ==
    IF result.success
    THEN FALSE
    ELSE IF result.status = 0
         THEN TRUE
         ELSE result.status \in {408, 429, 500, 502, 503, 504}

\* the window reset of isRateLimited, and its result
rateLimitWindow(c) ==
    IF c.windowExpired
    THEN [c EXCEPT !.rateLimitRequests = 0, !.windowExpired = FALSE]
    ELSE c

isRateLimited(c) == rateLimitWindow(c).rateLimitRequests >= rateLimitPerMinute

\* OptimizedHttpClient.isDuplicateRequest and cacheRequest
isDuplicateRequest(c, payload) == generatePayloadHash(payload) \in c.requestCache

cacheRequest(c, payload) ==
    [c EXCEPT !.requestCache = @ \cup {generatePayloadHash(payload)}]

\* OptimizedHttpClient.queueRequest
queueRequest(c, id) ==
    [c EXCEPT !.requestQueue = Append(@, id), !.requests[id].queued = TRUE]

\* OptimizedHttpClient.executeRequest up to its await of the network
clientExecuteRequest(c, id) ==
    [c EXCEPT !.pendingRequests = @ \cup {id},
              !.rateLimitRequests = @ + 1,
              !.requests[id].attempts = @ + 1]

\* OptimizedHttpClient.scheduleRetry
clientScheduleRetry(c, id) ==
    [c EXCEPT !.requests[id].retryCount = @ + 1, !.retryTimers = @ \cup {id}]

\* the loop of processQueue from the test of its condition to its next
\* await, or to the end of processQueue
processQueueLoop(c) ==
    IF /\ c.requestQueue # <<>>
       /\ Cardinality(c.pendingRequests) < maxConcurrentRequests
    THEN IF isRateLimited(c)
         THEN [rateLimitWindow(c) EXCEPT !.isProcessingQueue = FALSE, !.queueAwaits = 0]
         ELSE clientExecuteRequest(
                  [rateLimitWindow(c) EXCEPT !.requestQueue = Tail(@),
                                             !.queueAwaits = Head(c.requestQueue)],
                  Head(c.requestQueue))
    ELSE [c EXCEPT !.isProcessingQueue = FALSE, !.queueAwaits = 0]

\* OptimizedHttpClient.processQueue up to its first await
processQueue(c) ==
    IF c.isProcessingQueue \/ c.requestQueue = <<>>
    THEN c
    ELSE IF Cardinality(c.pendingRequests) >= maxConcurrentRequests
         THEN c
         ELSE processQueueLoop([c EXCEPT !.isProcessingQueue = TRUE])

\* the callback of a request is called
callback(c, id, response) ==
    [c EXCEPT !.requests[id].callbacks = @ + 1, !.requests[id].response = response]

\* the payload of a request that succeeded is noted in the history
noteDelivered(c, result, payload) ==
    IF result.success THEN [c EXCEPT !.delivered = @ \cup {payload}] ELSE c

\* the same, caching the payload of every request that ends
clientHandleRequestCompleteCachingAll(c, id, result) ==
    LET request == c.requests[id]
        removed == [c EXCEPT !.pendingRequests = @ \ {id}]
        retry == shouldRetryRequest(result)
        done ==
            IF retry /\ request.retryCount < clientMaxRetries
            THEN clientScheduleRetry(removed, id)
            ELSE callback(noteDelivered(cacheRequest(removed, request.payload),
                                        result, request.payload),
                          id,
                          [retry |-> retry /\ request.retryCount >= clientMaxRetries,
                           status |-> result.status, cached |-> FALSE])
    IN  processQueue(done)

\* OptimizedHttpClient.handleRequestComplete
clientHandleRequestComplete(c, id, result) ==
    LET request == c.requests[id]
        removed == [c EXCEPT !.pendingRequests = @ \ {id}]
        retry == shouldRetryRequest(result)
        done ==
            IF retry /\ request.retryCount < clientMaxRetries
            THEN clientScheduleRetry(removed, id)
            ELSE callback(noteDelivered(IF result.success
                                        THEN cacheRequest(removed, request.payload)
                                        ELSE removed,
                                        result, request.payload),
                          id,
                          [retry |-> retry /\ request.retryCount >= clientMaxRetries,
                           status |-> result.status, cached |-> FALSE])
    IN  processQueue(done)

\* the request object of send
NewRequest(payload) ==
    [payload |-> payload, retryCount |-> 0, attempts |-> 0, callbacks |-> 0,
     response |-> [retry |-> FALSE, status |-> 0, cached |-> FALSE],
     queued |-> FALSE]

\* OptimizedHttpClient.send up to its await of executeRequest
send(c, payload) ==
    LET id == Len(c.requests) + 1
        created == [c EXCEPT !.requests = Append(@, NewRequest(payload))]
    IN  IF payload = NoPayload
        THEN callback(created, id, [retry |-> FALSE, status |-> 0, cached |-> FALSE])
        ELSE IF isDuplicateRequest(c, payload)
             THEN callback([created EXCEPT !.deduplicationCount = @ + 1], id,
                           [retry |-> FALSE, status |-> 200, cached |-> TRUE])
             ELSE IF isRateLimited(created)
                  THEN queueRequest(rateLimitWindow(created), id)
                  ELSE IF Cardinality(c.pendingRequests) < maxConcurrentRequests
                       THEN clientExecuteRequest(rateLimitWindow(created), id)
                       ELSE queueRequest(rateLimitWindow(created), id)

\* OptimizedHttpClient.cleanupCache: the entries older than five minutes go
cleanupCache(c, old) ==
    [c EXCEPT !.requestCache = @ \ old,
              !.delivered = {p \in @ : generatePayloadHash(p) \notin old}]

\* the JSON text of the payload of a chunk, by the characters in which the
\* chunks of a scheduler differ: the sequence numbers of their events
ChunkText(chunk) == [i \in 1..Len(chunk) |-> 64 + chunk[i].sequence]

\* the request that sendChunk handed to the client for the chunk in flight
\* of a cycle
RequestOf(c, cycle) ==
    CHOOSE id \in 1..Len(c.requests) :
        c.requests[id].payload = ChunkText(cycle.chunks[Len(cycle.results) + 1])

\* the callback of sendChunk has resolved the promise a harvest cycle
\* awaits: the cycle goes on before any other task
LoopMicrotask ==
    \E cycle \in cycles : httpClient.requests[RequestOf(httpClient, cycle)].callbacks > 0

\* a task of the client can run: the client on its own, or the client of a
\* HarvestScheduler with no continuation of a harvest cycle waiting
ClientRuns == impl = "client" \/ (impl = "loop" /\ ~LoopMicrotask)

\* the other fields of the model are left alone by the client
ClientFrame ==
    UNCHANGED <<impl, buffer, totalEvents, currentPayloadSize, onSmartHarvestTrigger,
                triggerCalls, eventCounter, stats, featureEnabled, lastResult, log,
                dirty, dropBase, chunkVars, httpVars, schedVars, retryQueueHandler,
                retryDelay, legacyHarvester>>

\* send(requestOptions, callback), called by the page
Client_send(payload) ==
    /\ impl = "client"
    /\ Len(httpClient.requests) < MaxSends
    /\ httpClient' = send(httpClient, payload)
    /\ lastOp' = "send"
    /\ ClientFrame

\* the network attempt of a pending request ends: executeRequest from its
\* await on, and, when the loop of processQueue awaited it, that loop up to
\* its next await
Client_requestComplete(id, result) ==
    /\ ClientRuns
    /\ id \in httpClient.pendingRequests
    /\ LET completed == clientHandleRequestComplete(httpClient, id, result)
       IN  httpClient' = IF httpClient.queueAwaits = id
                         THEN processQueueLoop(completed)
                         ELSE completed
    /\ lastOp' = "requestComplete"
    /\ ClientFrame

\* the timer of scheduleRetry fires
Client_retryTimer(id) ==
    /\ ClientRuns
    /\ id \in httpClient.retryTimers
    /\ httpClient' = clientExecuteRequest(
                         [httpClient EXCEPT !.retryTimers = @ \ {id}], id)
    /\ lastOp' = "retryTimer"
    /\ ClientFrame

\* the clock reaches rateLimitState.resetTime
Client_windowExpires ==
    /\ ClientRuns
    /\ ~httpClient.windowExpired
    /\ httpClient' = [httpClient EXCEPT !.windowExpired = TRUE]
    /\ lastOp' = "windowExpires"
    /\ ClientFrame

\* the interval timer of the constructor calls cleanupCache
Client_cleanupCache(old) ==
    /\ impl = "client"
    /\ old # {}
    /\ httpClient' = cleanupCache(httpClient, old)
    /\ lastOp' = "cleanupCache"
    /\ ClientFrame

InitClient ==
    /\ impl = "client"
    /\ lastOp = "init"
    /\ BufferConstructed
    /\ HttpIdle
    /\ SchedIdle

NextClient ==
    \/ \E payload \in PayloadTexts \cup {NoPayload} : Client_send(payload)
    \/ \E id \in httpClient.pendingRequests, result \in ClientResults :
           Client_requestComplete(id, result)
    \/ \E id \in httpClient.retryTimers : Client_retryTimer(id)
    \/ Client_windowExpires
    \/ \E old \in SUBSET httpClient.requestCache : Client_cleanupCache(old)

SpecClient == InitClient /\ [][NextClient]_vars

\* the network answers, timers fire and the clock goes on; the page need
\* not call send again
ClientFairness ==
    /\ \A id \in 1..MaxSends :
           /\ WF_vars(\E result \in ClientResults : Client_requestComplete(id, result))
           /\ WF_vars(Client_retryTimer(id))
    /\ WF_vars(Client_windowExpires)

SpecClientLive == SpecClient /\ ClientFairness

(***************************************************************************)
(* The timer loop of a started HarvestScheduler whose sendChunk hands the  *)
(* chunks to the OptimizedHttpClient with request queue                    *)
(***************************************************************************)
\* the client after a step of the scheduler: sendChunk called
\* httpClient.send for the chunk of the cycle that the step suspended
handedToClient(before, after, c) ==
    LET suspended == after.cycles \ before.cycles
    IN  IF suspended = {}
        THEN c
        ELSE LET cycle == CHOOSE x \in suspended : TRUE
             IN  send(c, ChunkText(cycle.chunks[Len(cycle.results) + 1]))

\* the outcome of a request as the callback of sendChunk is told it
OutcomeOf(response) ==
    CHOOSE o \in HttpOutcomes(FALSE, FALSE) :
        /\ o.kind \in {"response", "networkError"}
        /\ handleRequestComplete(executeRequest(o)).retry = response.retry
        /\ executeRequest(o).status = response.status

\* the fields of scheduler, buffer and client after a task
LoopSet(before, after) ==
    /\ buffer' = after.buffer
    /\ totalEvents' = after.totalEvents
    /\ eventCounter' = after.eventCounter
    /\ stats' = after.stats
    /\ isStarted' = after.isStarted
    /\ currentTimerId' = after.currentTimerId
    /\ timerArmed' = after.timerArmed
    /\ orphanTimers' = after.orphanTimers
    /\ harvestCycle' = after.harvestCycle
    /\ isHarvesting' = after.isHarvesting
    /\ consecutiveFailures' = after.consecutiveFailures
    /\ performanceMetrics' = after.performanceMetrics
    /\ cycles' = after.cycles
    /\ deadLetterQueue' = after.deadLetterQueue
    /\ retryTimers' = after.retryTimers
    /\ resends' = after.resends
    /\ dlStats' = after.dlStats
    /\ finalHarvests' = after.finalHarvests
    /\ lastResult' = after.lastResult
    /\ httpClient' = handedToClient(before, after, httpClient)
    /\ UNCHANGED <<impl, currentPayloadSize, onSmartHarvestTrigger, triggerCalls,
                   featureEnabled, lastOp, log, dirty, dropBase, chunkVars, httpVars,
                   adaptiveConfig, env, lastInterval, retryQueueHandler, retryDelay,
                   legacyHarvester>>

\* VideoAnalyticsAgent.addEvent -> PriorityEventBuffer.add
Loop_addEvent(eventObject) ==
    /\ impl = "loop"
    /\ ~LoopMicrotask
    /\ eventCounter < MaxLoopEvents
    /\ \E after \in {PebAdd(SchedHere, eventObject)} : LoopSet(SchedHere, after)

\* the harvest timer fires: onHarvestInterval up to the first suspension of
\* triggerHarvest, or to the end of scheduleNextHarvest
Loop_onHarvestInterval ==
    /\ impl = "loop"
    /\ ~LoopMicrotask
    /\ timerArmed
    /\ \E fired \in {[SchedHere EXCEPT !.timerArmed = FALSE]} :
           \E after \in {triggerHarvest(fired, Options(FALSE, FALSE, TRUE))} :
               LoopSet(fired, after)

\* the promise of sendChunk is resolved: triggerHarvest goes on after its
\* await, to the send of the next chunk or to its end
Loop_sendChunkResolved(cycle) ==
    /\ impl = "loop"
    /\ cycle \in cycles
    /\ \E request \in {httpClient.requests[RequestOf(httpClient, cycle)]} :
           /\ request.callbacks > 0
           /\ \E outcome \in {OutcomeOf(request.response)} :
                  \E after \in {chunkComplete(SchedHere, cycle, outcome)} :
                      LoopSet(SchedHere, after)

\* a started scheduler with its first timer armed
InitLoop ==
    /\ impl = "loop"
    /\ lastOp = "init"
    /\ BufferConstructed
    /\ HttpIdle
    /\ RetryQueueConstructed
    /\ ClientConstructed
    /\ NoLegacyHarvest
    /\ NoRetryDelay
    /\ SchedStarted
    /\ harvestCycle = INTERVAL
    /\ adaptiveConfig = [enabled |-> FALSE]
    /\ env = [deadLetterHandling |-> FALSE, applicationID |-> TRUE,
              sendBeacon |-> FALSE]

NextLoop ==
    \/ \E e \in SchedEvents : Loop_addEvent(e)
    \/ Loop_onHarvestInterval
    \/ \E cycle \in cycles : Loop_sendChunkResolved(cycle)
    \/ \E id \in httpClient.pendingRequests, result \in ClientResults :
           Client_requestComplete(id, result)
    \/ \E id \in httpClient.retryTimers : Client_retryTimer(id)
    \/ Client_windowExpires

SpecLoop == InitLoop /\ [][NextLoop]_vars

\* a task of the client: the network answers an attempt, a retry timer
\* fires, or the clock reaches the end of the rate limit window
ClientTask ==
    \/ \E id \in httpClient.pendingRequests, result \in ClientResults :
           Client_requestComplete(id, result)
    \/ \E id \in httpClient.retryTimers : Client_retryTimer(id)
    \/ Client_windowExpires

\* an armed harvest timer fires, a resolved promise runs its continuation,
\* and the client's tasks run.  The client's tasks share one condition: a
\* request makes at most 1 + clientMaxRetries attempts and the window
\* expires once per test of the rate limit, so no task of the client can
\* be taken forever in place of another
LoopFairness ==
    /\ WF_vars(Loop_onHarvestInterval)
    /\ WF_vars(\E cycle \in cycles : Loop_sendChunkResolved(cycle))
    /\ WF_vars(ClientTask)

SpecLoopLive == SpecLoop /\ LoopFairness

(***************************************************************************)
(* recordEvent (the version that hands the event to                        *)
(* videoAnalyticsHarvester.addEvent), on an agent whose event buffer is a  *)
(* PriorityEventBuffer.  A JavaScript value passed as eventType is a       *)
(* record of its typeof and its text.                                      *)
(***************************************************************************)
\* Constants.VALID_EVENT_TYPES
VALID_EVENT_TYPES == {"VideoAction", "VideoAdAction", "VideoErrorAction", "VideoCustomAction"}

\* values the page passes as eventType: strings, undefined, null, a number
EventTypeInputs ==
    {[typeof |-> "string", text |-> t] :
         t \in VALID_EVENT_TYPES \cup {"InvalidEventType", "videoaction", ""}}
    \cup {[typeof |-> "undefined", text |-> "undefined"],
          [typeof |-> "object", text |-> "null"],
          [typeof |-> "number", text |-> "42"]}

\* Array.prototype.includes on an array of strings: strict equality
Includes(strings, value) == value.typeof = "string" /\ value.text \in strings

\* VideoAnalyticsAgent.addEvent with a PriorityEventBuffer
addEvent(st, eventObject) == [state |-> PebAdd(st, eventObject), result |-> "true"]

\* the same without the test of the event type
recordEventUnvalidated(st, eventType, attributes, info) ==
    IF ~info
    THEN [state |-> st, result |-> "undefined"]
    ELSE addEvent(st, attributes)

\* recordEvent(eventType, attributes); info tells whether window.NRVIDEO.info
\* is there.  The result is what the call returns
recordEvent(st, eventType, attributes, info) ==
    IF ~Includes(VALID_EVENT_TYPES, eventType)
    THEN [state |-> st, result |-> "false"]
    ELSE IF ~info
         THEN [state |-> st, result |-> "undefined"]
         ELSE addEvent(st, attributes)

\* the other fields of the model are left alone by recordEvent and drain
RecordFrame ==
    UNCHANGED <<impl, currentPayloadSize, onSmartHarvestTrigger, triggerCalls,
                featureEnabled, log, dirty, dropBase, chunkVars, httpVars, schedVars,
                handlerVars>>

\* the page calls recordEvent
Record_recordEvent(eventType, attributes, info) ==
    /\ impl = "record"
    /\ eventCounter < MaxCount
    /\ LET call == recordEvent(PebHere, eventType, attributes, info)
       IN  /\ buffer' = call.state.buffer
           /\ totalEvents' = call.state.totalEvents
           /\ eventCounter' = call.state.eventCounter
           /\ stats' = call.state.stats
           /\ lastResult' = call.result
    /\ lastOp' = "recordEvent"
    /\ RecordFrame

\* a harvest drains the buffer
Record_drain ==
    /\ impl = "record"
    /\ buffer # <<>>
    /\ buffer' = <<>>
    /\ totalEvents' = 0
    /\ stats' = [stats EXCEPT !.eventsDrained = @ + Len(buffer)]
    /\ lastResult' = "void"
    /\ lastOp' = "drain"
    /\ UNCHANGED eventCounter
    /\ RecordFrame

InitRecord ==
    /\ impl = "record"
    /\ lastOp = "init"
    /\ BufferConstructed
    /\ HttpIdle
    /\ SchedIdle

NextRecord ==
    \/ \E eventType \in EventTypeInputs, attributes \in PebEvents, info \in BOOLEAN :
           Record_recordEvent(eventType, attributes, info)
    \/ Record_drain

SpecRecord == InitRecord /\ [][NextRecord]_vars

(***************************************************************************)
(* The legacy Harvester on the agent's buffer                              *)
(***************************************************************************)
\* responses of the collector to a chunk, and 0 for a rejected fetch
LegacyStatuses == {200, 503, 0}

\* the chunks of harvest number harvest, as callApi holds them
LegacyRequests(harvest, sent) ==
    {[harvest |-> harvest, index |-> i, chunk |-> sent[i]] : i \in 1..Len(sent)}

\* Harvester.triggerHarvest(options): customEventAggregator.drain() empties
\* the buffer, and forEach hands every chunk to callApi before any callback
\* runs; a final harvest that goes through sendBeacon has no callbacks
legacyTriggerHarvest(st, harvester, isFinalHarvest) ==
    IF st.totalEvents = 0
    THEN [buffer |-> st, harvester |-> harvester]
    ELSE LET events == PebDrained(st.buffer, st.totalEvents, 0)
             sent == chunkEvents(events, getMaxChunkSize(isFinalHarvest))
         IN  [buffer |-> [st EXCEPT !.buffer = DropFirst(@, Len(events)),
                                    !.totalEvents = @ - Len(events),
                                    !.stats.eventsDrained = @ + Len(events)],
              harvester |->
                  [harvests |-> harvester.harvests + 1,
                   requests |-> harvester.requests \cup
                       (IF isFinalHarvest /\ env.sendBeacon THEN {}
                        ELSE LegacyRequests(harvester.harvests + 1, sent))]]

\* customEventAggregator.postHarvestCleanup(result) ->
\* PriorityEventBuffer.postHarvestCleanup -> retryEvents(result.chunk)
postHarvestCleanup(st, retry, chunk) ==
    IF retry /\ chunk # <<>>
    THEN [st EXCEPT !.buffer = PebRetried(@, chunk),
                    !.totalEvents = @ + Len(chunk)]
    ELSE st

LegacyFrame ==
    UNCHANGED <<impl, currentPayloadSize, onSmartHarvestTrigger, triggerCalls,
                featureEnabled, lastOp, lastResult, log, dirty, dropBase, chunkVars,
                httpVars, schedVars, retryQueueHandler, httpClient, retryDelay>>

LegacySet(st) ==
    /\ buffer' = st.buffer
    /\ totalEvents' = st.totalEvents
    /\ eventCounter' = st.eventCounter
    /\ stats' = st.stats

\* customEventAggregator.add -> VideoAnalyticsAgent.addEvent -> PriorityEventBuffer.add
Legacy_add(eventObject) ==
    /\ impl = "legacy"
    /\ eventCounter < MaxLegacyEvents
    /\ LegacySet(PebAdd(PebHere, eventObject))
    /\ UNCHANGED legacyHarvester
    /\ LegacyFrame

\* the harvest timer fires (options = {}), or pagehide (isFinalHarvest)
Legacy_triggerHarvest(isFinalHarvest) ==
    /\ impl = "legacy"
    /\ legacyHarvester.harvests < MaxLegacyHarvests
    /\ LET after == legacyTriggerHarvest(PebHere, legacyHarvester, isFinalHarvest)
       IN  /\ LegacySet(after.buffer)
           /\ legacyHarvester' = after.harvester
    /\ LegacyFrame

\* the callback callApi runs when the fetch of a chunk settles:
\* result.chunk = chunk when result.retry, then postHarvestCleanup(result)
Legacy_callback(request, status) ==
    /\ impl = "legacy"
    /\ request \in legacyHarvester.requests
    /\ LegacySet(postHarvestCleanup(PebHere, status = 0 \/ shouldRetry(status),
                                    request.chunk))
    /\ legacyHarvester' = [legacyHarvester EXCEPT !.requests = @ \ {request}]
    /\ LegacyFrame

InitLegacy ==
    /\ impl = "legacy"
    /\ lastOp = "init"
    /\ BufferConstructed
    /\ HttpIdle
    /\ SchedConstructed
    /\ harvestCycle = INTERVAL
    /\ adaptiveConfig = [enabled |-> FALSE]
    /\ env \in [deadLetterHandling : {FALSE}, applicationID : {TRUE},
                 sendBeacon : BOOLEAN]
    /\ RetryQueueConstructed
    /\ ClientConstructed
    /\ NoLegacyHarvest
    /\ NoRetryDelay

NextLegacy ==
    \/ \E e \in SchedEvents : Legacy_add(e)
    \/ \E isFinalHarvest \in BOOLEAN : Legacy_triggerHarvest(isFinalHarvest)
    \/ \E request \in legacyHarvester.requests, status \in LegacyStatuses :
           Legacy_callback(request, status)

SpecLegacy == InitLegacy /\ [][NextLegacy]_vars

CurrentChunk(cycle) == cycle.chunks[Len(cycle.results) + 1]

C12_RetryStoreIffRetryable ==
    [][\A c \in cycles : \A o \in SchedOutcomes(c.isFinalHarvest) :
          Sched_chunkComplete(c, o) =>
              LET retryable == handleRequestComplete(executeRequest(o)).retry
                  chunk == CurrentChunk(c)
                  last == chunk[Len(chunk)]
              IN  /\ buffer' = buffer
                  /\ totalEvents' = totalEvents
                  /\ retryable =>
                        /\ dlStats'.eventsReceived = dlStats.eventsReceived + Len(chunk)
                        /\ deadLetterQueue' # <<>>
                        /\ deadLetterQueue'[Len(deadLetterQueue')] =
                               [id |-> generateId(last), event |-> last, retryCount |-> 0]
                        /\ deadLetterQueue'[Len(deadLetterQueue')] \in retryTimers'
                  /\ ~retryable =>
                        /\ dlStats' = dlStats
                        /\ deadLetterQueue' = deadLetterQueue
                        /\ retryTimers' = retryTimers]_vars

C12_Witness ==
    /\ env.deadLetterHandling
    /\ cycles = {}
    /\ performanceMetrics.harvestsCompleted = 1
    /\ performanceMetrics.harvestsSuccessful = 1
    /\ performanceMetrics.totalEventsHarvested = 2
    /\ dlStats.eventsReceived = 1
    /\ Len(deadLetterQueue) = 1
    /\ deadLetterQueue[1] \in retryTimers

(***************************************************************************)
(* C13: at most one harvest cycle is in flight: no triggerHarvest drains   *)
(* the buffer and hands a chunk to the client while the request of an      *)
(* earlier cycle is still pending.                                         *)
(***************************************************************************)
C13_SingleHarvestInFlight == Cardinality(cycles) <= 1

(***************************************************************************)
(* C14: at most one harvest timer is armed, and there is at most one       *)
(* timer-driven scheduling loop (an armed timer, or a timer-driven harvest *)
(* that will arm the next timer when it resolves).                         *)
(***************************************************************************)
C14_SingleHarvestTimer ==
    /\ (IF timerArmed THEN 1 ELSE 0) + orphanTimers <= 1
    /\ TimerLoops <= 1

(***************************************************************************)
(* C15: a triggerHarvest call without force (a timer fire, a teardown      *)
(* signal) made while the event buffer and the dead letter queue are empty *)
(* reports no_events and touches nothing: the buffer is not drained, no    *)
(* request is handed to the client, consecutiveFailures and the harvest    *)
(* counters are unchanged.                                                 *)
(***************************************************************************)
\* a call of triggerHarvest without force
UnforcedHarvest == Sched_onHarvestInterval \/ \E signal \in TeardownSignals : Sched_teardown(signal)

\* the call changed nothing but what it reports and the timer
HarvestFrame ==
    /\ buffer' = buffer
    /\ totalEvents' = totalEvents
    /\ stats' = stats
    /\ cycles' = cycles
    /\ consecutiveFailures' = consecutiveFailures
    /\ performanceMetrics' = performanceMetrics
    /\ isHarvesting' = isHarvesting

C15_NoEventsTouchesNothing ==
    [][(UnforcedHarvest /\ totalEvents = 0 /\ deadLetterQueue = <<>>) =>
           (lastResult' = "no_events" /\ HarvestFrame)]_vars

(***************************************************************************)
(* C15 as the code has it: the call reports no_events when no harvest      *)
(* cycle is in progress, and harvest_in_progress (not a success) when one  *)
(* is; in both cases it touches nothing.                                   *)
(***************************************************************************)
C15_NoEventsUnlessInProgress ==
    [][(UnforcedHarvest /\ totalEvents = 0 /\ deadLetterQueue = <<>>) =>
           /\ lastResult' = (IF isHarvesting THEN "harvest_in_progress" ELSE "no_events")
           /\ HarvestFrame]_vars

C15_Witness ==
    /\ lastResult = "no_events"
    /\ totalEvents = 0
    /\ buffer = <<>>
    /\ ~isHarvesting
    /\ cycles = {}
    /\ isStarted
    /\ timerArmed
    /\ stats.eventsDrained = 0
    /\ performanceMetrics = NoMetrics

(***************************************************************************)
(* C16: when the request of the last chunk of a harvest cycle completes,   *)
(* consecutiveFailures becomes 0 if the send of at least one chunk of the  *)
(* cycle succeeded and grows by one otherwise, where a send that ended in  *)
(* a failure status, retryable or terminal, did not succeed.               *)
(***************************************************************************)
C16_ConsecutiveFailures ==
    [][\A c \in cycles : \A o \in SchedOutcomes(c.isFinalHarvest) :
          (Sched_chunkComplete(c, o) /\ Len(c.results) + 1 = Len(c.chunks)) =>
              LET succeeded ==
                      \/ executeRequest(o).success
                      \/ \E i \in 1..Len(c.results) : ResponseOk(c.results[i].status)
              IN  consecutiveFailures' =
                      IF succeeded THEN 0 ELSE consecutiveFailures + 1]_vars

(***************************************************************************)
(* C17: with adaptive scheduling enabled calculateNextInterval returns     *)
(* harvestCycle * 1.5^consecutiveFailures clamped to [minInterval,         *)
(* maxInterval], for every harvestCycle that setHarvestInterval accepted   *)
(* and every consecutiveFailures >= 0: the result lies within the two      *)
(* limits and no smaller number of failures gives a larger result.  With   *)
(* adaptive scheduling disabled it returns harvestCycle.                   *)
(***************************************************************************)
\* base * (3/2)^n clamped to [5000, 60000], in exact arithmetic
Clamped(base, n) ==
    IF base * Pow(3, n) <= 5000 * Pow(2, n) THEN Ms(5000)
    ELSE IF base * Pow(3, n) >= 60000 * Pow(2, n) THEN Ms(60000)
    ELSE [num |-> base * Pow(3, n), den |-> Pow(2, n)]

C17_IntervalClamped ==
    lastOp = "calculateNextInterval" =>
        /\ harvestCycle >= 1000 /\ harvestCycle <= 300000
        /\ adaptiveConfig.enabled =>
              /\ Leq(lastInterval, Clamped(harvestCycle, consecutiveFailures))
              /\ Leq(Clamped(harvestCycle, consecutiveFailures), lastInterval)
              /\ Leq(Ms(5000), lastInterval)
              /\ Leq(lastInterval, Ms(60000))
              /\ \A fewer \in 0..consecutiveFailures :
                     Leq(calculateNextInterval(harvestCycle, fewer, adaptiveConfig),
                         lastInterval)
        /\ ~adaptiveConfig.enabled => lastInterval = Ms(harvestCycle)

C17_Witness ==
    /\ lastOp = "calculateNextInterval"
    /\ adaptiveConfig.enabled
    /\ harvestCycle = 17778
    /\ consecutiveFailures = 2
    /\ lastInterval = [num |-> 160002, den |-> 4]

(***************************************************************************)
(* C18: whatever teardown signals arrive (visibilitychange to hidden,      *)
(* pagehide, beforeunload), at most one harvest with isFinalHarvest drains *)
(* the buffer and is sent: later signals start no further harvest.         *)
(***************************************************************************)
C18_TeardownHarvestOnce == finalHarvests <= 1

(***************************************************************************)
(* C19: forceHarvest on a buffer of n >= 1 events that fit one chunk hands *)
(* the client exactly one new request, whose chunk is exactly those events *)
(* in insertion order, and leaves the buffer empty.                        *)
(***************************************************************************)
C19_ForcedRoundTrip ==
    [][(/\ Sched_forceHarvest
        /\ totalEvents >= 1
        /\ Len(chunkEvents(buffer, getMaxChunkSize(FALSE))) = 1) =>
           /\ buffer' = <<>>
           /\ totalEvents' = 0
           /\ Cardinality(cycles' \ cycles) = 1
           /\ \A c \in cycles' \ cycles :
                  /\ c.chunks = <<buffer>>
                  /\ c.results = <<>>]_vars

(***************************************************************************)
(* C20: once the events of a chunk whose send failed retryably have been   *)
(* resent with success (they left the dead letter queue as successful      *)
(* retries), consecutiveFailures eventually returns to 0.                  *)
(***************************************************************************)
C20_RecoveryResetsFailures ==
    [](dlStats.retriesSuccessful > 0 => <>(consecutiveFailures = 0))

(***************************************************************************)
(* C21: every dead letter item is resent at most maxRetries times: in      *)
(* every reachable state the retryCount of every queued item and of every  *)
(* item whose resend is in flight is at most maxRetries.                   *)
(***************************************************************************)
C21_RetryLimit ==
    /\ \A i \in 1..Len(deadLetterQueue) : deadLetterQueue[i].retryCount <= maxRetries
    /\ \A r \in BagToSet(resends) : r.retryCount <= maxRetries

(***************************************************************************)
(* C22: the dead letter queue never holds more than maxQueueSize items.    *)
(* When failed events arrive, the items that have to leave are the oldest  *)
(* ones: the queue afterwards is the newest end of the old queue followed  *)
(* by the new items, no retry timer is left for an evicted item, and       *)
(* eventsDiscarded grows by one per evicted item.                          *)
(***************************************************************************)
\* the items addFailedEvents makes of a chunk
NewItems(chunk) ==
    [i \in 1..Len(chunk) |->
        [id |-> generateId(chunk[i]), event |-> chunk[i], retryCount |-> 0]]

FittingPrefixes(q, availableSpace, availableEventCount) ==
    {k \in 0..Len(q) : k <= availableEventCount /\ SumSizes(First(q, k)) <= availableSpace}

C23_OldestFirstFit ==
    [][\A b \in FitBudgets :
          Rq_getRetryEventsToFit(b.space, b.count) =>
              LET q == retryQueueHandler.retryQueue
                  fitting == FittingPrefixes(q, b.space, b.count)
                  longest == CHOOSE k \in fitting : \A j \in fitting : j <= k
              IN  /\ retryQueueHandler'.retryEvents = First(q, longest)
                  /\ retryQueueHandler'.retryQueue = DropFirst(q, longest)]_vars

(***************************************************************************)
(* C24: for every retry count and every value of Math.random(), the delay  *)
(* computed by calculateBackoffDelay and by calculateRetryDelay lies       *)
(* between initialDelayMs and maxDelayMs inclusive.                        *)
(***************************************************************************)
C24_DelayWithinBounds ==
    lastOp \in {"calculateBackoffDelay", "calculateRetryDelay"} =>
        /\ Leq(Ms(retryPolicy.initialDelayMs), retryDelay.delay)
        /\ Leq(retryDelay.delay, Ms(retryPolicy.maxDelayMs))

(***************************************************************************)
(* C25: the client does not retry: every send() leads to at most one       *)
(* network attempt and at most one call of the callback, and a request     *)
(* that is neither waiting in the queue nor in flight has had its callback *)
(* called exactly once.                                                    *)
(***************************************************************************)
C25_NoRetryInClient ==
    \A id \in 1..Len(httpClient.requests) :
        /\ httpClient.requests[id].attempts <= 1
        /\ httpClient.requests[id].callbacks <= 1
        /\ (\/ id \in httpClient.pendingRequests
            \/ \E i \in 1..Len(httpClient.requestQueue) : httpClient.requestQueue[i] = id
            \/ httpClient.requests[id].callbacks = 1)

(***************************************************************************)
(* C26: the number of requests in flight (pendingRequests) never exceeds   *)
(* maxConcurrentRequests.                                                  *)
(***************************************************************************)
C26_ConcurrencyCap ==
    Cardinality(httpClient.pendingRequests) <= maxConcurrentRequests

\* the calls of the callback of the id-th send, and whether its request was queued
Callbacks(id) ==
    IF id <= Len(httpClient.requests) THEN httpClient.requests[id].callbacks ELSE 0

WasQueued(id) ==
    IF id <= Len(httpClient.requests) THEN httpClient.requests[id].queued ELSE FALSE

(***************************************************************************)
(* C27: a request that the client has put into its queue is not dropped:   *)
(* its callback is called at most once, and eventually it has been called  *)
(* once.                                                                   *)
(***************************************************************************)
C27_QueuedEventuallyAnswered ==
    \A id \in 1..MaxSends :
        /\ [](Callbacks(id) <= 1)
        /\ WasQueued(id) ~> (Callbacks(id) = 1)

\* the step is a send() that skipped the network call as a duplicate
DedupSkip ==
    IF Len(httpClient'.requests) = Len(httpClient.requests) + 1
    THEN httpClient'.requests[Len(httpClient'.requests)].response.cached
    ELSE FALSE

\* the payload of the send() of the step
SentPayload == httpClient'.requests[Len(httpClient'.requests)].payload

(***************************************************************************)
(* C28: send() skips the network call as a duplicate only if the same      *)
(* payload was sent successfully before and its cache entry has not been   *)
(* cleaned up since (so never a payload whose earlier sends all failed),   *)
(* and every skip adds exactly one to the deduplication counter.           *)
(***************************************************************************)
C28_DedupOnlyAfterSuccess ==
    [][DedupSkip =>
           /\ SentPayload \in httpClient.delivered
           /\ httpClient'.deduplicationCount = httpClient.deduplicationCount + 1]_vars

(***************************************************************************)
(* C28, amended: send() skips the network call as a duplicate only if a    *)
(* payload with the same content hash, the same payload or another one,    *)
(* was sent successfully before and the cache entry of the hash has not    *)
(* been cleaned up since; a send whose hash no successful send has left in *)
(* the cache is not skipped.  Every skip adds exactly one to the           *)
(* deduplication counter, and no other step changes the counter.           *)
(***************************************************************************)
C28_DedupOnlyAfterSameHash ==
    [][/\ DedupSkip =>
              /\ \E sent \in httpClient.delivered :
                     generatePayloadHash(sent) = generatePayloadHash(SentPayload)
              /\ generatePayloadHash(SentPayload) \in httpClient.requestCache
              /\ httpClient'.deduplicationCount = httpClient.deduplicationCount + 1
       /\ ~DedupSkip =>
              httpClient'.deduplicationCount = httpClient.deduplicationCount]_vars

\* a payload was sent three times: the first send failed for good, so the
\* second one went to the network and succeeded, and the third was skipped
C28_Witness ==
    /\ Len(httpClient.requests) = 3
    /\ \A id \in 1..3 : httpClient.requests[id].payload = httpClient.requests[1].payload
    /\ httpClient.requests[1].response.status = 400
    /\ httpClient.requests[1].callbacks = 1
    /\ httpClient.requests[2].attempts = 1
    /\ httpClient.requests[2].response.status = 200
    /\ httpClient.requests[2].callbacks = 1
    /\ httpClient.requests[3].response.cached
    /\ httpClient.requests[3].attempts = 0
    /\ httpClient.deduplicationCount = 1

(***************************************************************************)
(* C29: recordEvent called with an event type that is not one of the four  *)
(* valid strings (another string, the empty string, undefined, null, a     *)
(* number) returns false, does not throw, does not call addEvent and       *)
(* leaves the event buffer and its counters as they were.                  *)
(***************************************************************************)
C29_InvalidTypeRejected ==
    [][\A eventType \in EventTypeInputs, attributes \in PebEvents, info \in BOOLEAN :
           (/\ Record_recordEvent(eventType, attributes, info)
            /\ ~(eventType.typeof = "string" /\ eventType.text \in VALID_EVENT_TYPES))
           => /\ lastResult' = "false"
              /\ UNCHANGED <<buffer, totalEvents, eventCounter, stats>>]_vars

\* a call with an invalid type was rejected while events were queued
C29_Witness ==
    /\ lastOp = "recordEvent"
    /\ lastResult = "false"
    /\ Len(buffer) >= 2

\* the events of a harvest cycle that are not yet accounted for by a result
PendingEvents(cycle) ==
    Len(Flatten(SubSeq(cycle.chunks, Len(cycle.results) + 1, Len(cycle.chunks))))

RECURSIVE InFlightEvents(_)
InFlightEvents(cs) ==
    IF cs = {}
    THEN 0
    ELSE LET c == CHOOSE x \in cs : TRUE
         IN  PendingEvents(c) + InFlightEvents(cs \ {c})

\* the events the dead letter handler holds: queued, or being resent
RetryStoreEvents ==
    Cardinality({deadLetterQueue[i].id : i \in 1..Len(deadLetterQueue)}
                \cup {item.id : item \in BagToSet(resends)})

(***************************************************************************)
(* C30: data loss is always counted: the events accepted by add() are      *)
(* covered by the events still in the buffer, in flight in a harvest       *)
(* cycle, held by the dead letter handler, delivered (by a harvest or by a *)
(* resend), and the loss counters stats.eventsDropped and                  *)
(* stats.eventsDiscarded of the dead letter handler.                       *)
(***************************************************************************)
C30_LossCounted ==
    stats.eventsAdded <=
        Len(buffer) + InFlightEvents(cycles) + RetryStoreEvents
        + performanceMetrics.eventsDelivered + dlStats.retriesSuccessful
        + stats.eventsDropped + dlStats.eventsDiscarded

\* the aggregator's totals match its queue, and no slot of the queue is empty
AggConsistent ==
    /\ \A i \in 1..Len(buffer) : buffer[i] # undefined
    /\ totalEvents = Len(buffer)
    /\ currentPayloadSize = SumSizes(buffer)

(***************************************************************************)
(* C31: an aggregate event inserted while an aggregate event is queued     *)
(* among other events takes the position of the queued one: every other    *)
(* event keeps its place, totalEvents is unchanged and currentPayloadSize  *)
(* changes by the size of the new event minus the size of the old one.     *)
(***************************************************************************)
C31_ReplaceInPlace ==
    [][\A e \in AggregateEvents :
          ( /\ AggConsistent
            /\ Len(buffer) >= 2
            /\ findIndex(buffer, QOE_AGGREGATE) > 0
            /\ Agg_addOrReplaceByActionName(e) )
          => LET i == findIndex(buffer, QOE_AGGREGATE)
             IN  /\ buffer' = [buffer EXCEPT ![i] = e]
                 /\ totalEvents' = totalEvents
                 /\ currentPayloadSize' =
                        currentPayloadSize + dataSize(e) - dataSize(buffer[i])]_vars

(***************************************************************************)
(* C32: isHarvesting is true while some harvest cycle has started and not  *)
(* yet resolved, and false when no cycle is in flight.                     *)
(***************************************************************************)
C32_FlagTracksCycles == isHarvesting <=> (cycles # {})

(***************************************************************************)
(* C33: when the harvest timer fires while isHarvesting is true, the cycle *)
(* is skipped: the buffer is not drained, no chunk is handed to the        *)
(* client, consecutiveFailures and the harvest counters are unchanged, and *)
(* while the scheduler is started a timer is armed afterwards.             *)
(***************************************************************************)
C33_TimerSkipsWhileHarvesting ==
    [][(Sched_onHarvestInterval /\ isHarvesting) =>
           /\ buffer' = buffer
           /\ totalEvents' = totalEvents
           /\ cycles' = cycles
           /\ consecutiveFailures' = consecutiveFailures
           /\ performanceMetrics' = performanceMetrics
           /\ isHarvesting'
           /\ lastResult' = "harvest_in_progress"
           /\ isStarted => timerArmed']_vars

\* a timer fired while a harvest was in progress and events were waiting:
\* the call was skipped and the timer is armed again
C33_Witness ==
    /\ lastResult = "harvest_in_progress"
    /\ isHarvesting
    /\ isStarted
    /\ timerArmed
    /\ cycles # {}
    /\ \A c \in cycles : ~c.timer /\ ~c.isFinalHarvest
    /\ buffer # <<>>
    /\ finalHarvests = 0

(***************************************************************************)
(* C34: a teardown signal drains every event that is in the buffer at that *)
(* moment and dispatches them in final-harvest mode, also while another    *)
(* harvest cycle is in flight; it is never skipped as harvest_in_progress. *)
(***************************************************************************)
TeardownDispatched ==
    /\ totalEvents' = 0
    /\ buffer' = <<>>
    /\ lastResult' # "harvest_in_progress"
    /\ \E c \in cycles' \ cycles :
           /\ c.isFinalHarvest
           /\ Flatten(c.chunks) = buffer
           /\ \A i \in 1..Len(c.chunks) :
                  Len(c.chunks[i]) <= getMaxChunkSize(TRUE)

C34_TeardownAlwaysDrains ==
    [][\A signal \in TeardownSignals :
          (Sched_teardown(signal) /\ totalEvents > 0 /\ env.applicationID)
              => TeardownDispatched]_vars

(***************************************************************************)
(* C35: within one harvest cycle the chunks are handed to the client in    *)
(* chunk order, one at a time: a cycle starts with its first chunk, the    *)
(* chunk in flight is always the one after the last chunk that has a       *)
(* result, and the callback of chunk i is what hands over chunk i + 1.     *)
(***************************************************************************)
\* the chunk of cycle c that the client holds
InFlightChunk(c) == Len(c.results) + 1

C35_NextChunkAfterCallback ==
    [][/\ \A d \in cycles' \ cycles :
              \/ /\ d.results = <<>>
                 /\ Flatten(d.chunks) = buffer
              \/ \E c \in cycles \ cycles' :
                     /\ d.chunks = c.chunks
                     /\ Len(d.results) = Len(c.results) + 1
                     /\ SubSeq(d.results, 1, Len(c.results)) = c.results
                     /\ d.results[Len(d.results)].eventCount = Len(c.chunks[InFlightChunk(c)])
       /\ \A d \in cycles' :
              /\ InFlightChunk(d) <= Len(d.chunks)
              /\ \A i \in 1..Len(d.results) :
                     d.results[i].eventCount = Len(d.chunks[i])]_vars

\* a cycle of several chunks whose first chunk has its result and whose
\* second chunk is in flight
C35_Witness ==
    \E c \in cycles :
        /\ Len(c.chunks) >= 2
        /\ InFlightChunk(c) = 2
        /\ c.results[1].eventCount = Len(c.chunks[1])

(***************************************************************************)
(* C36: failed events that are re-queued are ahead of all fresh events and *)
(* in their original order, whatever the order in which the callbacks of   *)
(* the failed chunks arrive: the buffer is always in the order in which    *)
(* add() numbered the events.                                              *)
(***************************************************************************)
C36_RequeuedInOrder ==
    \A i, j \in 1..Len(buffer) : i < j => buffer[i].sequence < buffer[j].sequence

(***************************************************************************)
(* C37: getRetryEventsToFit returns at most availableEventCount events     *)
(* whose sizes sum to at most availableSpace; the events returned and the  *)
(* events left are together exactly the queue as it was, each event once,  *)
(* and both groups keep the order they had in the queue.                   *)
(***************************************************************************)
\* s is t with some elements left out, the others in t's order
RECURSIVE IsSubsequence(_, _)
IsSubsequence(s, t) ==
    IF s = <<>> THEN TRUE
    ELSE IF t = <<>> THEN FALSE
    ELSE IF Head(s) = Head(t) THEN IsSubsequence(Tail(s), Tail(t))
    ELSE IsSubsequence(s, Tail(t))

\* the elements of s as a bag
SeqBag(s) ==
    [x \in {s[i] : i \in 1..Len(s)} |-> Cardinality({i \in 1..Len(s) : s[i] = x})]

C37_FitWithinBudgetsAndPartition ==
    [][\A b \in FitBudgets :
          Rq_getRetryEventsToFit(b.space, b.count) =>
              LET before == retryQueueHandler.retryQueue
                  returned == retryQueueHandler'.retryEvents
                  left == retryQueueHandler'.retryQueue
              IN  /\ Len(returned) <= b.count
                  /\ SumSizes(returned) <= b.space
                  /\ SeqBag(returned) (+) SeqBag(left) = SeqBag(before)
                  /\ IsSubsequence(returned, before)
                  /\ IsSubsequence(left, before)]_vars

\* a call that split a queue of several events: some returned, some left
C37_Witness ==
    /\ lastOp = "getRetryEventsToFit"
    /\ Len(retryQueueHandler.retryEvents) >= 2
    /\ retryQueueHandler.retryQueue # <<>>

(***************************************************************************)
(* C38: RetryQueueHandler.addFailedEvents returns for every input, also    *)
(* for an event that does not fit the byte limit of an empty queue: no     *)
(* call is left spinning in its loop that makes room.                      *)
(***************************************************************************)
C38_AddFailedEventsTerminates == ~retryQueueHandler.hung

(***************************************************************************)
(* C39: while the scheduler is started, every timer-driven harvest attempt *)
(* resolves and is followed by arming the next timer, and every event in   *)
(* the buffer is eventually taken out of it: whenever no harvest timer is  *)
(* armed one is armed later, and whenever the buffer holds events it is    *)
(* empty later.                                                            *)
(***************************************************************************)
C39_TimerLoopNeverStalls ==
    /\ (isStarted /\ ~timerArmed) ~> timerArmed
    /\ (totalEvents > 0) ~> (totalEvents = 0)

(***************************************************************************)
(* C40: no event is being transmitted by two senders at once: over all     *)
(* harvest cycles and all resends of the dead letter handler, an event is  *)
(* in at most one request in flight, and the chunks of the cycles in       *)
(* flight have no event in common.                                         *)
(***************************************************************************)
\* the events of a sequence of events, as a set of sequence numbers
SequenceNumbers(events) == {events[i].sequence : i \in 1..Len(events)}

\* the requests in flight that carry the event numbered n: chunks in flight
\* of harvest cycles, and resends of dead letter items
TransmissionsOf(n) ==
    Cardinality({c \in cycles : n \in SequenceNumbers(c.chunks[InFlightChunk(c)])})
    + BagCardinality([r \in {x \in BagToSet(resends) : x.event.sequence = n}
                         |-> CopiesIn(r, resends)])

C40_NoConcurrentDuplicateSend ==
    /\ \A n \in 1..MaxSchedEvents : TransmissionsOf(n) <= 1
    /\ \A c, d \in cycles :
           c # d => SequenceNumbers(Flatten(c.chunks))
                        \cap SequenceNumbers(Flatten(d.chunks)) = {}
    /\ \A c \in cycles :
           \A i, j \in 1..Len(c.chunks) :
               i # j => SequenceNumbers(c.chunks[i]) \cap SequenceNumbers(c.chunks[j]) = {}

====
